---- MODULE Spec2Model ----
(***************************************************************************)
(* Client-side model of the cooking-with-chris single-page application:    *)
(*   - the axios API client with its token-refresh response interceptor,   *)
(*   - authService (login / logout over localStorage),                     *)
(*   - AuthProvider (context user, inactivity timer),                      *)
(*   - the create-recipe form (sections, items, validation, submit).       *)
(*                                                                         *)
(* JavaScript runs on one event loop: an event handler, a timer callback   *)
(* or the continuation of an awaited promise runs to its next await        *)
(* without interleaving, so each action below is one such run, the         *)
(* callers' continuations (catch / finally / code after await) included.   *)
(***************************************************************************)
EXTENDS Integers, Sequences, FiniteSets, Bags, TLC

\* ------------------------------------------------------------------ bounds
MaxReq == 2             \* requests that can be in flight at the same time
MaxTimers == 2          \* timeout ids that can be live at the same time
MaxRows == 3            \* ingredient plus instruction rows on the create form
MaxRecipes == 1         \* recipes the store can hold
MaxComments == 1        \* comments ever posted to the thread
TicksPerTimeout == 2    \* clock steps that make up the idle duration

\* --------------------------------------------------------------- constants
ResetRateLimit == 3     \* password reset requests answered per hour

INACTIVITY_TIMEOUT == 12 * 60 * 60 * 1000
TickMs == INACTIVITY_TIMEOUT \div TicksPerTimeout

None == "none"                      \* null / absent key
NullRef == 0                        \* inactivityTimerRef.current = null
TimerIds == 1..MaxTimers
AccessTokens == {"a1", "a2"}        \* access tokens the server may issue

VARIABLES
  localStorage,        \* [access_token, refresh_token, user]
  user,                \* AuthProvider's React state `user`
  timers,              \* pending setTimeout callbacks: id -> ms remaining
  inactivityTimerRef,  \* inactivityTimerRef.current
  href,                \* target assigned to window.location.href, not yet loaded
  requests,            \* bag of the requests sent through `api`, in flight
  ev,                  \* the event-loop task that ran last
  quiet,               \* ms since the pending timer was armed or a signal arrived
  logoutDone,          \* how the last AuthProvider.logout of this page ended
  formData,            \* CreateRecipePage: the basic recipe fields
  ingredientSections,  \* CreateRecipePage: ingredient sections with their rows
  instructionSections, \* CreateRecipePage: instruction sections with their rows
  error,               \* CreateRecipePage: the error message shown
  loading,             \* CreateRecipePage: a create request is in flight
  formEv,              \* CreateRecipePage: the handler that ran last
  store,               \* backend: committed recipes, id -> recipe with its graph
  tx,                  \* backend: the write transaction in progress
  srvEv,               \* backend: the request step that ran last, its response
  detail,              \* RecipeDetailPage: viewer, fetched recipe, controls
  thread,              \* backend: the comments of the recipe
  commentPage,         \* CommentSection: viewer, comments, text, messages
  commentEv,           \* CommentSection: the handler or request that ran last
  forgot,              \* ForgotPasswordPage: email, loading, error, success
  resetSrv,            \* backend: reset requests counted, mails handed over
  resetEv,             \* the password reset request that went out last
  listPage,            \* RecipeListPage / MyRecipesPage: the component's state
  listReqs,            \* the list requests in flight, each by its params
  listEv,              \* the list request that went out or came back last
  resetForm,           \* ResetPasswordPage: the component's state
  confirmEv            \* what the last submit of ResetPasswordPage did

authVars == <<localStorage, user, timers, inactivityTimerRef, href, requests,
              ev, quiet, logoutDone>>

formVars == <<formData, ingredientSections, instructionSections, error,
              loading, formEv>>

serverVars == <<store, tx, srvEv>>

\* Everything but the session and the create form.
pageVars == <<detail>>

commentVars == <<thread, commentPage, commentEv>>

resetVars == <<forgot, resetSrv, resetEv>>

listVars == <<listPage, listReqs, listEv>>

confirmVars == <<resetForm, confirmEv>>

sideVars == <<commentVars, resetVars, listVars, confirmVars>>

restVars == <<serverVars, pageVars, sideVars>>

vars == <<authVars, formVars, restVars>>

\* ------------------------------------------------------------------ world
\* The mutable browser state one task reads and writes, threaded through the
\* code's functions in program order.
World ==
  [ls |-> localStorage, user |-> user, timers |-> timers,
   ref |-> inactivityTimerRef, href |-> href, quiet |-> quiet, full |-> FALSE,
   forced |-> None, logoutResult |-> None]

EmptyStorage == [access_token |-> None, refresh_token |-> None, user |-> None]

\* A request in flight: pc is "sent" (awaiting the server's response) or
\* "refreshing" (the interceptor awaits its refresh call); retry is
\* originalRequest._retry. NoRequest stands for no request, or one `api` has
\* settled.
NoRequest == [kind |-> None, pc |-> "idle", retry |-> FALSE,
              refreshCalls |-> 0, sends |-> 0]

NewRequest(kind) == [kind |-> kind, pc |-> "sent", retry |-> FALSE,
                     refreshCalls |-> 0, sends |-> 1]

\* localStorage.removeItem x3
clearTokens(w) == [w EXCEPT !.ls = EmptyStorage]

\* clearTimeout(id): cancelling an id that is not pending does nothing
clearTimeout(w, id) ==
  [w EXCEPT !.timers = [i \in DOMAIN w.timers \ {id} |-> w.timers[i]]]

\* Variant that forgets the pending timer without cancelling it.
clearInactivityTimer_ForgetOnly(w) == [w EXCEPT !.ref = NullRef]

clearInactivityTimer(w) ==
  IF w.ref # NullRef
    THEN [clearTimeout(w, w.ref) EXCEPT !.ref = NullRef]
    ELSE w

\* setTimeout returns an id no live timer has; ids are only ever compared
\* with inactivityTimerRef.current.
FreshIds(w) == {i \in TimerIds : i \notin DOMAIN w.timers /\ i # w.ref}

setTimeout(w) ==
  IF FreshIds(w) = {}
    THEN [w EXCEPT !.full = TRUE]
    ELSE LET id == CHOOSE i \in FreshIds(w) : \A j \in FreshIds(w) : i <= j
         IN [w EXCEPT !.timers = [i \in DOMAIN w.timers \cup {id} |->
                                    IF i = id THEN INACTIVITY_TIMEOUT
                                              ELSE w.timers[i]],
                      !.ref = id,
                      !.quiet = 0]

getCurrentUser(w) == w.ls.user

\* Variant of resetInactivityTimer that arms without cancelling.
resetInactivityTimer_KeepPending(w) ==
  IF getCurrentUser(w) # None THEN setTimeout(w) ELSE w

resetInactivityTimer(w) ==
  LET c == clearInactivityTimer(w)
  IN IF getCurrentUser(c) # None THEN setTimeout(c) ELSE c

setUser(w, nextUser) ==
  LET s == [w EXCEPT !.user = nextUser]
  IN IF nextUser # None
       THEN resetInactivityTimer([s EXCEPT !.ls.user = nextUser])
       ELSE clearInactivityTimer([s EXCEPT !.ls.user = None])

\* ------------------------------------------------------------ authService
\* authService.logout from the point where its server call settled (ok),
\* threw (~ok) or was skipped (ok): catch logs the error and swallows it,
\* finally clears the three keys. The result is how its promise settles.
\* Variant of authService.logout without the finally block.
authServiceLogoutSettle_NoFinally(w, ok) ==
  IF ok THEN [w |-> clearTokens(w), result |-> "resolved"]
        ELSE [w |-> w, result |-> "rejected"]

authServiceLogoutSettle(w, ok) == [w |-> clearTokens(w), result |-> "resolved"]

\* authService.login after the server accepted the credentials
authServiceLoginStore(w, access, refresh, u) ==
  [w EXCEPT !.ls = [access_token |-> access, refresh_token |-> refresh,
                    user |-> u]]

\* ----------------------------------------------------------- AuthProvider
\* AuthProvider.logout after `await authService.logout()`
logoutAfterAwait(w, ok) ==
  LET out == authServiceLogoutSettle(w, ok)
      v == [out.w EXCEPT !.logoutResult = out.result]
  IN IF out.result = "resolved" THEN setUser(v, None) ELSE v

\* Variant of handleInactivityLogout that stays on the page.
handleInactivityLogoutAfterAwait_NoRedirect(w, ok) ==
  LET out == authServiceLogoutSettle(w, ok)
  IN [out.w EXCEPT !.logoutResult = out.result, !.user = None]

\* handleInactivityLogout after `await authService.logout()`
handleInactivityLogoutAfterAwait(w, ok) ==
  LET out == authServiceLogoutSettle(w, ok)
      v == [out.w EXCEPT !.logoutResult = out.result]
  IN IF out.result = "resolved"
       THEN [v EXCEPT !.user = None, !.href = "inactivity"]
       ELSE v

\* AuthProvider.login after `await authService.login(...)`
loginAfterAwait(w, access, refresh, u) ==
  setUser(authServiceLoginStore(w, access, refresh, u), u)

\* What the caller of a request does once `api` resolved (ok) or rejected it.
OnSettled(w, kind, ok, access) ==
  CASE kind = "login" ->
         IF ok THEN loginAfterAwait(w, access, "r1", "u1") ELSE w
    [] kind = "logout" -> logoutAfterAwait(w, ok)
    [] kind = "idleLogout" -> handleInactivityLogoutAfterAwait(w, ok)
    [] kind = "profile" -> IF ok THEN setUser(w, "u1") ELSE w
    [] OTHER -> w

\* ------------------------------------------------------------- api client
\* Variant in which a request sent again keeps the header it was first sent
\* with.
AuthorizationHeader_Expired(w) == localStorage.access_token

\* Request interceptor: the Authorization header is the stored access token.
AuthorizationHeader(w) == w.ls.access_token

\* Variant of the line-40 test that does not look at _retry.
ShouldRefresh_Any401(q, status) == status = 401

\* Response interceptor, line 40: refresh only a 401 that was not retried.
ShouldRefresh(q, status) == status = 401 /\ ~q.retry

\* Response interceptor: no refresh token stored
InterceptNoRefreshToken(w) ==
  [clearTokens(w) EXCEPT !.href = "no_session", !.forced = "no_session"]

\* Variant of the catch branch that keeps the stored keys.
InterceptRefreshFailed_KeepKeys(w) ==
  [w EXCEPT !.href = "session_expired", !.forced = "session_expired"]

\* Response interceptor: the refresh call threw
InterceptRefreshFailed(w) ==
  [clearTokens(w) EXCEPT !.href = "session_expired",
                         !.forced = "session_expired"]

\* Response interceptor: the refresh call returned a new access token
InterceptRefreshed(w, access) == [w EXCEPT !.ls.access_token = access]

\* ------------------------------------------------------------------ steps
\* ev: the task that ran last. kind: the request it was about; before, after:
\* that request when the task began and ended; result: what became of it;
\* tok: the access token in the server's response; auth: the Authorization
\* header of the request the task sent; forced: the reason the interceptor
\* put in window.location.href; logoutResult: how authService.logout settled.
Ev(op) ==
  [op |-> op, kind |-> None, before |-> NoRequest, after |-> NoRequest,
   result |-> None, tok |-> None, auth |-> None, forced |-> None,
   logoutResult |-> None]

\* Write the world a task leaves behind.
Commit(w, reqs, e) ==
  /\ ~w.full
  /\ localStorage' = w.ls
  /\ user' = w.user
  /\ timers' = w.timers
  /\ inactivityTimerRef' = w.ref
  /\ href' = w.href
  /\ quiet' = IF DOMAIN w.timers = {} THEN 0 ELSE w.quiet
  /\ requests' = reqs
  /\ ev' = [e EXCEPT !.forced = w.forced, !.logoutResult = w.logoutResult]
  /\ UNCHANGED <<formData, ingredientSections, instructionSections, error,
                 loading, formEv>>
  /\ UNCHANGED restVars

One(q) == SetToBag({q})

InFlight == BagToSet(requests)

\* The ghost logoutDone after a request of `kind` settled: an explicit logout
\* completed (and whether a timer had been re-armed while it was in flight),
\* or the next login succeeded.
LogoutDoneAfter(kind, ok) ==
  CASE kind = "logout" ->
         IF DOMAIN timers # {} THEN "rearmed" ELSE "done"
    [] kind = "login" /\ ok -> "no"
    [] OTHER -> logoutDone

\* `api` settles request q: the caller's continuation runs in the same task.
Settle(q, w, ok, access, op) ==
  /\ Commit(OnSettled(w, q.kind, ok, access),
            requests (-) One(q),
            [Ev(op) EXCEPT !.kind = q.kind, !.before = q,
                           !.result = IF ok THEN "resolved" ELSE "rejected",
                           !.tok = access])
  /\ logoutDone' = LogoutDoneAfter(q.kind, ok)

\* A page sends a request through `api`.
Send(w, kind, op) ==
  /\ BagCardinality(requests) < MaxReq
  /\ Commit(w, requests (+) One(NewRequest(kind)),
            [Ev(op) EXCEPT !.kind = kind, !.after = NewRequest(kind),
                           !.result = "sent",
                           !.auth = AuthorizationHeader(w)])
  /\ UNCHANGED logoutDone

\* LoginPage.handleSubmit; the submit button is disabled while a login is
\* in flight.
LoginSubmit ==
  /\ \A q \in InFlight : q.kind # "login"
  /\ Send(World, "login", "LoginSubmit")

\* The profile page is behind ProtectedRoute.
LoadProfile == user # None /\ Send(World, "profile", "LoadProfile")

DataRequest == Send(World, "data", "DataRequest")

\* authService.logout up to its await: the server call is made only with a
\* stored refresh token; without one the function runs to its end at once.
StartLogout(w, kind, op) ==
  IF w.ls.refresh_token # None
    THEN Send(w, kind, op)
    ELSE /\ Commit(OnSettled(w, kind, TRUE, None), requests,
                   [Ev(op) EXCEPT !.kind = kind, !.result = "skipped"])
         /\ logoutDone' = LogoutDoneAfter(kind, TRUE)

\* Navbar's logout button -> AuthProvider.logout
LogoutClick ==
  /\ user # None
  /\ StartLogout(clearInactivityTimer(World), "logout", "LogoutClick")

ResponseOk(q) ==
  /\ q.pc = "sent"
  /\ \E access \in AccessTokens :
       Settle(q, World, TRUE, IF q.kind = "login" THEN access ELSE None,
              "ResponseOk")

\* A response with status 401 reaches the response interceptor.
Response401(q) ==
  /\ q.pc = "sent"
  /\ IF ShouldRefresh(q, 401)
       THEN IF World.ls.refresh_token # None
              THEN LET a == [q EXCEPT !.retry = TRUE, !.pc = "refreshing",
                                      !.refreshCalls = @ + 1]
                   IN /\ Commit(World, (requests (-) One(q)) (+) One(a),
                                [Ev("Response401") EXCEPT
                                   !.kind = q.kind, !.before = q, !.after = a,
                                   !.result = "refreshing"])
                      /\ UNCHANGED logoutDone
              ELSE Settle(q, InterceptNoRefreshToken(World), FALSE, None,
                          "Response401")
       ELSE Settle(q, World, FALSE, None, "Response401")

\* Any other failure: another status, a network error, the 15 s timeout.
ResponseError(q) ==
  /\ q.pc = "sent"
  /\ Settle(q, World, FALSE, None, "ResponseError")

\* The refresh call returned: store the token, send the request again.
RefreshOk(q) ==
  /\ q.pc = "refreshing"
  /\ \E access \in AccessTokens :
       LET w == InterceptRefreshed(World, access)
           a == [q EXCEPT !.pc = "sent", !.sends = @ + 1]
       IN Commit(w, (requests (-) One(q)) (+) One(a),
                 [Ev("RefreshOk") EXCEPT
                    !.kind = q.kind, !.before = q, !.after = a,
                    !.result = "resent", !.tok = access,
                    !.auth = AuthorizationHeader(w)])
  /\ UNCHANGED logoutDone

RefreshFail(q) ==
  /\ q.pc = "refreshing"
  /\ Settle(q, InterceptRefreshFailed(World), FALSE, None, "RefreshFail")

\* One of mousedown, keydown, scroll, touchstart, click reaches handleActivity.
handleActivity(w) ==
  IF getCurrentUser(w) # None THEN resetInactivityTimer(w) ELSE w

Activity ==
  /\ Commit([handleActivity(World) EXCEPT !.quiet = 0], requests,
            Ev("Activity"))
  /\ UNCHANGED logoutDone

\* The clock advances by TickMs. A request settles within its 15 s timeout
\* and a page load takes seconds, so neither spans a tick; a due timer fires
\* before more time passes.
Tick ==
  /\ requests = EmptyBag
  /\ href = None
  /\ DOMAIN timers # {}
  /\ \A i \in DOMAIN timers : timers[i] > 0
  /\ timers' = [i \in DOMAIN timers |->
                  IF timers[i] > TickMs THEN timers[i] - TickMs ELSE 0]
  /\ quiet' = IF quiet + TickMs < INACTIVITY_TIMEOUT
                THEN quiet + TickMs ELSE INACTIVITY_TIMEOUT
  /\ ev' = Ev("Tick")
  /\ UNCHANGED <<localStorage, user, inactivityTimerRef, href, requests,
                 logoutDone>>
  /\ UNCHANGED <<formData, ingredientSections, instructionSections, error,
                 loading, formEv>>
  /\ UNCHANGED restVars

\* A due timeout runs its callback, handleInactivityLogout. The ref keeps the
\* id of the timer that fired.
TimerFire(id) ==
  /\ id \in DOMAIN timers
  /\ timers[id] = 0
  /\ StartLogout(clearTimeout(World, id), "idleLogout", "TimerFire")

\* AuthProvider mounts on a freshly loaded page.
Mount(ls) ==
  LET w == [ls |-> ls, user |-> None, timers |-> [i \in {} |-> 0],
            ref |-> NullRef, href |-> None, quiet |-> 0, full |-> FALSE,
            forced |-> None, logoutResult |-> None]
  IN IF getCurrentUser(w) # None
       THEN resetInactivityTimer([w EXCEPT !.user = getCurrentUser(w)])
       ELSE w

\* The document assigned to window.location.href loads: the old page, its
\* timers and its pending requests are gone.
PageLoad ==
  /\ href # None
  /\ Commit(Mount(localStorage), EmptyBag, Ev("PageLoad"))
  /\ logoutDone' = "no"

StoredSessions ==
  {EmptyStorage} \cup
  {[access_token |-> a, refresh_token |-> "r1", user |-> "u1"] :
     a \in AccessTokens}

AuthInit ==
  \E ls \in StoredSessions :
    LET w == Mount(ls)
    IN /\ localStorage = w.ls
       /\ user = w.user
       /\ timers = w.timers
       /\ inactivityTimerRef = w.ref
       /\ href = w.href
       /\ quiet = 0
       /\ requests = EmptyBag
       /\ ev = Ev("PageLoad")
       /\ logoutDone = "no"

\* ===================================================== CreateRecipePage
\* String.prototype.trim on the texts a user types: empty, whitespace only
\* (" "), or something
Trim(s) == IF s = " " THEN "" ELSE s

\* What a number input can hold, and its numeric value (Number(s) in a
\* comparison, parseInt(s) in the payload)
ToNumber(s) == CASE s = "5" -> 5 [] s = "-1" -> 0 - 1 [] OTHER -> 0

\* !value of a string: only the empty string is falsy
Falsy(s) == s = ""

NewIngredient(order) ==
  [ingredient_quantity |-> "", ingredient_uom |-> "", ingredient_name |-> "",
   ingredient_order |-> order]

NewInstruction(order) == [instruction_step |-> "", step_order |-> order]

InitialFormData ==
  [recipe_name |-> "", recipe_description |-> "", course_type |-> "",
   recipe_type |-> "", primary_protein |-> "", ethnic_style |-> "",
   prep_time |-> "", cook_time |-> "", number_servings |-> ""]

InitialIngredientSections ==
  << [section_title |-> "Main Ingredients", section_order |-> 1,
      ingredients |-> << NewIngredient(1) >>] >>

InitialInstructionSections ==
  << [section_title |-> "Preparation", section_order |-> 1,
      instructions |-> << NewInstruction(1) >>] >>

\* array.filter((_, index) => index !== k), with 1-based positions
RemoveAt(seq, k) ==
  [i \in 1..(Len(seq) - 1) |-> IF i < k THEN seq[i] ELSE seq[i + 1]]

\* Variant of the section renumbering that keeps the old numbers.
RenumberSections_Keep(secs) == secs

\* updated.forEach((section, index) => section.section_order = index + 1)
RenumberSections(secs) ==
  [i \in 1..Len(secs) |-> [secs[i] EXCEPT !.section_order = i]]

RenumberIngredients(items) ==
  [i \in 1..Len(items) |-> [items[i] EXCEPT !.ingredient_order = i]]

RenumberInstructions(items) ==
  [i \in 1..Len(items) |-> [items[i] EXCEPT !.step_order = i]]

addIngredientSectionTo(secs) ==
  Append(secs, [section_title |-> "", section_order |-> Len(secs) + 1,
                ingredients |-> << NewIngredient(1) >>])

removeIngredientSectionFrom(secs, k) == RenumberSections(RemoveAt(secs, k))

addIngredientTo(secs, k) ==
  [secs EXCEPT ![k].ingredients =
     Append(@, NewIngredient(Len(secs[k].ingredients) + 1))]

removeIngredientFrom(secs, k, j) ==
  [secs EXCEPT ![k].ingredients = RenumberIngredients(RemoveAt(@, j))]

addInstructionSectionTo(secs) ==
  Append(secs, [section_title |-> "", section_order |-> Len(secs) + 1,
                instructions |-> << NewInstruction(1) >>])

removeInstructionSectionFrom(secs, k) == RenumberSections(RemoveAt(secs, k))

addInstructionTo(secs, k) ==
  [secs EXCEPT ![k].instructions =
     Append(@, NewInstruction(Len(secs[k].instructions) + 1))]

removeInstructionFrom(secs, k, j) ==
  [secs EXCEPT ![k].instructions = RenumberInstructions(RemoveAt(@, j))]

\* Variant of the page that always renders "Remove Section".
CanRemoveSection_Always(secs) == TRUE

\* The buttons the page renders
CanRemoveSection(secs) == Len(secs) > 1

CanRemoveRow(rows) == Len(rows) > 1

RECURSIVE SumRows(_, _)
SumRows(lens, n) == IF n = 0 THEN 0 ELSE lens[n] + SumRows(lens, n - 1)

Rows ==
  SumRows([i \in 1..Len(ingredientSections) |->
             Len(ingredientSections[i].ingredients)], Len(ingredientSections))
  + SumRows([i \in 1..Len(instructionSections) |->
               Len(instructionSections[i].instructions)],
            Len(instructionSections))

\* ----------------------------------------------------------- validateForm
RECURSIVE FirstError(_, _)
\* The first message of a list of checks run in order ("" when none fails):
\* validateForm returns at the first failing check.
FirstError(msgs, i) ==
  IF i > Len(msgs) THEN ""
  ELSE IF msgs[i] # "" THEN msgs[i]
  ELSE FirstError(msgs, i + 1)

BasicChecks(fd) ==
  << IF Falsy(Trim(fd.recipe_name)) THEN "Recipe name is required" ELSE "",
     IF Falsy(Trim(fd.recipe_description))
       THEN "Recipe description is required" ELSE "",
     IF Falsy(fd.course_type) THEN "Course type is required" ELSE "",
     IF Falsy(fd.recipe_type) THEN "Recipe type is required" ELSE "",
     IF Falsy(fd.primary_protein) THEN "Primary protein is required" ELSE "",
     IF Falsy(fd.ethnic_style) THEN "Ethnic style is required" ELSE "",
     IF Falsy(fd.prep_time) \/ ToNumber(fd.prep_time) < 0
       THEN "Valid prep time is required" ELSE "",
     IF Falsy(fd.cook_time) \/ ToNumber(fd.cook_time) < 0
       THEN "Valid cook time is required" ELSE "",
     IF Falsy(fd.number_servings) \/ ToNumber(fd.number_servings) < 1
       THEN "Number of servings must be at least 1" ELSE "" >>

IngredientSectionChecks(section) ==
  << IF Falsy(Trim(section.section_title))
       THEN "All ingredient sections must have a title" ELSE "",
     IF Len(section.ingredients) = 0
       THEN "Each ingredient section must have at least one ingredient"
       ELSE "",
     IF \E j \in 1..Len(section.ingredients) :
          Falsy(Trim(section.ingredients[j].ingredient_name))
       THEN "All ingredients must have a name" ELSE "" >>

InstructionSectionChecks(section) ==
  << IF Falsy(Trim(section.section_title))
       THEN "All instruction sections must have a title" ELSE "",
     IF Len(section.instructions) = 0
       THEN "Each instruction section must have at least one step" ELSE "",
     IF \E j \in 1..Len(section.instructions) :
          Falsy(Trim(section.instructions[j].instruction_step))
       THEN "All instruction steps must have text" ELSE "" >>

\* Variant of validateForm that checks the basic fields only.
validateForm_BasicOnly(fd, ing, ins) == FirstError(BasicChecks(fd), 1)

\* The message validateForm sets, "" when it returns true.
validateForm(fd, ing, ins) ==
  FirstError(
    << FirstError(BasicChecks(fd), 1),
       FirstError([k \in 1..Len(ing) |->
                     FirstError(IngredientSectionChecks(ing[k]), 1)], 1),
       FirstError([k \in 1..Len(ins) |->
                     FirstError(InstructionSectionChecks(ins[k]), 1)], 1) >>,
    1)

\* handleSubmit's recipeData
RecipeData(fd, ing, ins) ==
  [recipe_name |-> Trim(fd.recipe_name),
   recipe_description |-> Trim(fd.recipe_description),
   course_type |-> fd.course_type,
   recipe_type |-> fd.recipe_type,
   primary_protein |-> fd.primary_protein,
   ethnic_style |-> fd.ethnic_style,
   prep_time |-> ToNumber(fd.prep_time),
   cook_time |-> ToNumber(fd.cook_time),
   number_servings |-> ToNumber(fd.number_servings),
   ingredient_sections |-> ing,
   instruction_sections |-> ins]

\* ------------------------------------------------------------ form steps
\* formEv: what the page did last: a submit, the removal of a section (at:
\* the section removed), or any other edit; valid, payload: for handleSubmit,
\* whether validateForm passed and the recipeData handed to
\* recipeService.createRecipe.
FormEv(op, at, valid, payload) ==
  [op |-> op, at |-> at, valid |-> valid, payload |-> payload,
   errorData |-> [kind |-> None, values |-> << >>]]

Edit(op, at, ing, ins) ==
  /\ ingredientSections' = ing
  /\ instructionSections' = ins
  /\ formEv' = IF op \in {"removeIngredientSection",
                            "removeInstructionSection"}
                 THEN FormEv(op, at, FALSE, None)
               ELSE FormEv("edit", 0, FALSE, None)
  /\ UNCHANGED <<formData, error, loading>>
  /\ UNCHANGED <<authVars, restVars>>

addIngredientSection ==
  /\ Rows < MaxRows
  /\ Edit("addIngredientSection", 0, addIngredientSectionTo(ingredientSections), instructionSections)

removeIngredientSection(k) ==
  /\ k \in 1..Len(ingredientSections)
  /\ CanRemoveSection(ingredientSections)
  /\ Edit("removeIngredientSection", k, removeIngredientSectionFrom(ingredientSections, k),
          instructionSections)

addIngredient(k) ==
  /\ k \in 1..Len(ingredientSections)
  /\ Rows < MaxRows
  /\ Edit("addIngredient", k, addIngredientTo(ingredientSections, k), instructionSections)

removeIngredient(k, j) ==
  /\ k \in 1..Len(ingredientSections)
  /\ j \in 1..Len(ingredientSections[k].ingredients)
  /\ CanRemoveRow(ingredientSections[k].ingredients)
  /\ Edit("removeIngredient", k, removeIngredientFrom(ingredientSections, k, j),
          instructionSections)

updateIngredientSectionTitle(k, title) ==
  /\ k \in 1..Len(ingredientSections)
  /\ Edit("updateIngredientSectionTitle", k, [ingredientSections EXCEPT ![k].section_title = title],
          instructionSections)

\* updateIngredient with field = ingredient_name
updateIngredient(k, j, value) ==
  /\ k \in 1..Len(ingredientSections)
  /\ j \in 1..Len(ingredientSections[k].ingredients)
  /\ Edit("updateIngredient", k,
          [ingredientSections EXCEPT ![k].ingredients[j].ingredient_name = value],
          instructionSections)

addInstructionSection ==
  /\ Rows < MaxRows
  /\ Edit("addInstructionSection", 0, ingredientSections,
          addInstructionSectionTo(instructionSections))

removeInstructionSection(k) ==
  /\ k \in 1..Len(instructionSections)
  /\ CanRemoveSection(instructionSections)
  /\ Edit("removeInstructionSection", k, ingredientSections,
          removeInstructionSectionFrom(instructionSections, k))

addInstruction(k) ==
  /\ k \in 1..Len(instructionSections)
  /\ Rows < MaxRows
  /\ Edit("addInstruction", k, ingredientSections, addInstructionTo(instructionSections, k))

removeInstruction(k, j) ==
  /\ k \in 1..Len(instructionSections)
  /\ j \in 1..Len(instructionSections[k].instructions)
  /\ CanRemoveRow(instructionSections[k].instructions)
  /\ Edit("removeInstruction", k, ingredientSections,
          removeInstructionFrom(instructionSections, k, j))

updateInstructionSectionTitle(k, title) ==
  /\ k \in 1..Len(instructionSections)
  /\ Edit("updateInstructionSectionTitle", k, ingredientSections,
          [instructionSections EXCEPT ![k].section_title = title])

updateInstruction(k, j, value) ==
  /\ k \in 1..Len(instructionSections)
  /\ j \in 1..Len(instructionSections[k].instructions)
  /\ Edit("updateInstruction", k, ingredientSections,
          [instructionSections EXCEPT
             ![k].instructions[j].instruction_step = value])

\* The submit button is disabled while loading.
handleSubmit ==
  LET msg == validateForm(formData, ingredientSections, instructionSections)
  IN /\ ~loading
     /\ IF msg # ""
          THEN /\ error' = msg
               /\ loading' = FALSE
               /\ formEv' = FormEv("handleSubmit", 0, FALSE, None)
          ELSE /\ error' = ""
               /\ loading' = TRUE
               /\ formEv' = FormEv("handleSubmit", 0, TRUE,
                                   RecipeData(formData, ingredientSections,
                                              instructionSections))
     /\ UNCHANGED <<formData, ingredientSections, instructionSections>>
     /\ UNCHANGED <<authVars, restVars>>

\* createRecipe resolved: navigate to the new recipe; the page is left and
\* starts from its initial state when it is opened again.
CreateOk ==
  /\ loading
  /\ formData' = InitialFormData
  /\ ingredientSections' = InitialIngredientSections
  /\ instructionSections' = InitialInstructionSections
  /\ error' = ""
  /\ loading' = FALSE
  /\ formEv' = FormEv("created", 0, FALSE, None)
  /\ UNCHANGED <<authVars, restVars>>

\* err.response?.data. kind: None when there is no response or no body,
\* "text" for a body that is not an object, "object" for a JSON object;
\* values: Object.values of the object, each an array of messages or a
\* message.
ErrorData(kind, values) == [kind |-> kind, values |-> values]

Messages(items) == [isArray |-> TRUE, items |-> items, text |-> ""]

Message(text) == [isArray |-> FALSE, items |-> << >>, text |-> text]

\* What setError gets from a value that is not there.
Undefined == "undefined"

\* What the catch block of handleSubmit shows for err.response?.data
CreateErrorMessage(errorData) ==
  IF errorData.kind = None
    THEN "Failed to create recipe. Please try again."
  ELSE IF errorData.kind # "object"
    THEN "Failed to create recipe. Please check your inputs."
  ELSE IF errorData.values = << >>
    THEN Undefined
  ELSE LET firstError == errorData.values[1]
       IN  IF firstError.isArray
             THEN IF firstError.items = << >>
                    THEN Undefined
                  ELSE firstError.items[1]
           ELSE firstError.text

\* The failures of a create request: no response; a body that is not JSON;
\* field errors; a detail message; an object with nothing in it.
ErrorDatas ==
  {ErrorData(None, << >>),
   ErrorData("text", << >>),
   ErrorData("object", << Messages(<<"This field is required.",
                                     "Ensure this value is at least 1.">>),
                          Message("Not found.") >>),
   ErrorData("object", << Message("Authentication credentials were not provided.") >>),
   ErrorData("object", << >>)}

CreateFail(errorData) ==
  /\ loading
  /\ error' = CreateErrorMessage(errorData)
  /\ loading' = FALSE
  /\ formEv' = [FormEv("failed", 0, FALSE, None)
                  EXCEPT !.errorData = errorData]
  /\ UNCHANGED <<formData, ingredientSections, instructionSections>>
  /\ UNCHANGED <<authVars, restVars>>

FormTexts == {"", "a"}

FilledFormData ==
  [recipe_name |-> "a", recipe_description |-> "a", course_type |-> "Dinner",
   recipe_type |-> "Soup", primary_protein |-> "Beef",
   ethnic_style |-> "Thai", prep_time |-> "5", cook_time |-> "5",
   number_servings |-> "5"]

FormInit ==
  /\ formData \in {InitialFormData, FilledFormData}
  /\ ingredientSections = InitialIngredientSections
  /\ instructionSections = InitialInstructionSections
  /\ error = ""
  /\ loading = FALSE
  /\ formEv = FormEv("mount", 0, FALSE, None)

\* ================================================================ backend
\* The REST backend of the repository, as the design describes it: the
\* recipe store and the nested write transaction. A request names its
\* requester: None (no identity), a regular user or the admin.
Requesters == {None, "u1", "u2", "admin"}

IsAdmin(u) == u = "admin"

NoTx == [op |-> None]

\* The closed enumeration of each facet.
FacetValues ==
  [course_type |-> {"Dinner", "Dessert"},
   recipe_type |-> {"Soup"},
   primary_protein |-> {"Beef", "Chicken"},
   ethnic_style |-> {"Thai"}]

\* computeTotalTime(prep, cook)
computeTotalTime(prep, cook) == prep + cook

\* A list of sections is in order when it is not empty and every section has
\* a title and at least one row, each row with its text.
SectionViolations(secs, rows, text, what) ==
  IF \/ Len(secs) = 0
     \/ \E k \in 1..Len(secs) :
          \/ Falsy(Trim(secs[k].section_title))
          \/ Len(secs[k][rows]) = 0
          \/ \E j \in 1..Len(secs[k][rows]) :
               Falsy(Trim(secs[k][rows][j][text]))
    THEN {what} ELSE {}

\* validate(recipe): the set of violated fields, every one of them.
validate(data) ==
  (IF Falsy(data.recipe_name) THEN {"recipe_name"} ELSE {})
  \cup (IF Falsy(data.recipe_description) THEN {"recipe_description"} ELSE {})
  \cup {f \in DOMAIN FacetValues : data[f] \notin FacetValues[f]}
  \cup (IF data.prep_time < 0 THEN {"prep_time"} ELSE {})
  \cup (IF data.cook_time < 0 THEN {"cook_time"} ELSE {})
  \cup (IF data.number_servings < 1 THEN {"number_servings"} ELSE {})
  \cup SectionViolations(data.ingredient_sections, "ingredients",
                         "ingredient_name", "ingredient_sections")
  \cup SectionViolations(data.instruction_sections, "instructions",
                         "instruction_step", "instruction_sections")

\* The Recipe row of a request, before its sections are written.
RecipeRow(data, image, creator) ==
  [recipe_name |-> data.recipe_name,
   course_type |-> data.course_type,
   primary_protein |-> data.primary_protein,
   prep_time |-> data.prep_time,
   cook_time |-> data.cook_time,
   total_time |-> computeTotalTime(data.prep_time, data.cook_time),
   number_servings |-> data.number_servings,
   ingredient_sections |-> << >>,
   instruction_sections |-> << >>,
   image |-> IF image THEN "pending" ELSE "fallback",
   creator_id |-> creator,
   deleted |-> FALSE]

Visible_Dirty(st, t) == IF t.op = None THEN st ELSE t.staged

\* What a reader is shown: the committed rows only (no dirty reads).
Visible(st, t) == st

\* ------------------------------------------------------ requests it gets
IngredientGraph(names) ==
  [k \in 1..Len(names) |->
     [section_title |-> IF k = 1 THEN "Main Ingredients" ELSE "a",
      section_order |-> k,
      ingredients |-> << [NewIngredient(1) EXCEPT
                            !.ingredient_name = names[k]] >>]]

InstructionGraph(steps) ==
  << [section_title |-> "Preparation", section_order |-> 1,
      instructions |-> [j \in 1..Len(steps) |->
                          [instruction_step |-> steps[j], step_order |-> j]]] >>

\* The nested payloads clients send: handleSubmit's recipeData for a filled
\* form, with or without an image; any client can send them, so they need not
\* have passed validateForm.
PlainRequest ==
  [data |-> RecipeData(FilledFormData, IngredientGraph(<<"a">>),
                       InstructionGraph(<<"a">>)),
   image |-> FALSE]

WriteRequests ==
  { PlainRequest,
    [data |-> RecipeData([FilledFormData EXCEPT !.prep_time = "0"],
                         IngredientGraph(<<"a", "a">>),
                         InstructionGraph(<<"a", "a">>)),
     image |-> TRUE],
    [data |-> RecipeData([FilledFormData EXCEPT !.recipe_name = " "],
                         IngredientGraph(<<"">>), InstructionGraph(<<"a">>)),
     image |-> FALSE] }

\* -------------------------------------------------------- backend steps
\* srvEv: the request step that ran last: who asked, for which recipe, how
\* it ended, the violated fields of a ValidationError and, for a read or a
\* read-back, the rows returned.
SrvEv(op, by, id, status, violations, seen) ==
  [op |-> op, by |-> by, id |-> id, status |-> status,
   violations |-> violations, seen |-> seen,
   query |-> [search |-> << >>, course_type |-> None, time_needed |-> None]]

Respond(op, by, id, status, violations, seen) ==
  /\ srvEv' = SrvEv(op, by, id, status, violations, seen)
  /\ UNCHANGED <<authVars, formVars, pageVars, sideVars>>

Exists(st, id) == id \in 1..Len(st)

\* A missing or soft-deleted target.
Gone(st, id) == IF Exists(st, id) THEN st[id].deleted ELSE TRUE

MayModify_Anyone(u, recipe) == u # None

\* May this identity modify or delete this recipe: its creator or an admin.
MayModify(u, recipe) == u = recipe.creator_id \/ IsAdmin(u)

ReplaceRow_StaleTotal(old, data, image) ==
  [RecipeRow(data, image, old.creator_id) EXCEPT
     !.image = IF image THEN "pending" ELSE old.image,
     !.deleted = old.deleted,
     !.total_time = old.total_time]

\* The flat fields of an update replace the stored ones, the prior graph is
\* deleted whole; the creator and the deleted flag stay.
ReplaceRow(old, data, image) ==
  [RecipeRow(data, image, old.creator_id) EXCEPT
     !.image = IF image THEN "pending" ELSE old.image,
     !.deleted = old.deleted]

\* A write that never starts: no identity, or violated fields.
RejectCreate(u, r) ==
  /\ tx.op = None
  /\ \/ /\ u = None
        /\ Respond("create", u, 0, "AuthenticationError", {}, << >>)
     \/ /\ u # None
        /\ validate(r.data) # {}
        /\ Respond("create", u, 0, "ValidationError", validate(r.data), << >>)
  /\ UNCHANGED <<store, tx>>

\* create, steps 1 and 2: validation passed, the Recipe row is written
\* inside a new transaction, bound to the authenticated creator.
BeginCreate(u, r) ==
  /\ tx.op = None
  /\ u # None
  /\ validate(r.data) = {}
  /\ Len(store) < MaxRecipes
  /\ tx' = [op |-> "create", id |-> Len(store) + 1, by |-> u, req |-> r,
            step |-> "ingredients",
            staged |-> Append(store, RecipeRow(r.data, r.image, u))]
  /\ Respond("create", u, Len(store) + 1, "pending", {}, << >>)
  /\ UNCHANGED store

\* An update that never starts.
RejectUpdate(u, id, r) ==
  /\ tx.op = None
  /\ \/ /\ u = None
        /\ Respond("update", u, id, "AuthenticationError", {}, << >>)
     \/ /\ u # None
        /\ Gone(store, id)
        /\ Respond("update", u, id, "NotFoundError", {}, << >>)
     \/ /\ u # None
        /\ ~Gone(store, id)
        /\ ~MayModify(u, store[id])
        /\ Respond("update", u, id, "PermissionError", {}, << >>)
     \/ /\ u # None
        /\ ~Gone(store, id)
        /\ MayModify(u, store[id])
        /\ validate(r.data) # {}
        /\ Respond("update", u, id, "ValidationError", validate(r.data), << >>)
  /\ UNCHANGED <<store, tx>>

\* update: same validation, then the prior graph is deleted inside a new
\* transaction, to be recreated from the payload.
BeginUpdate(u, id, r) ==
  /\ tx.op = None
  /\ u # None
  /\ ~Gone(store, id)
  /\ MayModify(u, store[id])
  /\ validate(r.data) = {}
  /\ tx' = [op |-> "update", id |-> id, by |-> u, req |-> r,
            step |-> "ingredients",
            staged |-> [store EXCEPT
                          ![id] = ReplaceRow(store[id], r.data, r.image)]]
  /\ Respond("update", u, id, "pending", {}, << >>)
  /\ UNCHANGED store

AppendIngredientSection_Prepend(row, section) ==
  [row EXCEPT !.ingredient_sections = <<section>> \o @]

AppendIngredientSection(row, section) ==
  [row EXCEPT !.ingredient_sections = Append(@, section)]

AppendInstructionSection(row, section) ==
  [row EXCEPT !.instruction_sections = Append(@, section)]

\* step 3, first half: the next IngredientSection in listed order, with its
\* Ingredients in listed order.
PersistIngredientSection ==
  /\ tx.op # None
  /\ tx.step = "ingredients"
  /\ LET listed == tx.req.data.ingredient_sections
         k == Len(tx.staged[tx.id].ingredient_sections) + 1
     IN  tx' = [tx EXCEPT
                  !.staged[tx.id] = AppendIngredientSection(@, listed[k]),
                  !.step = IF k = Len(listed) THEN "instructions" ELSE @]
  /\ Respond(tx.op, tx.by, tx.id, "pending", {}, << >>)
  /\ UNCHANGED store

\* step 3, second half: each InstructionSection and Instruction likewise.
PersistInstructionSection ==
  /\ tx.op # None
  /\ tx.step = "instructions"
  /\ LET listed == tx.req.data.instruction_sections
         k == Len(tx.staged[tx.id].instruction_sections) + 1
     IN  tx' = [tx EXCEPT
                  !.staged[tx.id] = AppendInstructionSection(@, listed[k]),
                  !.step = IF k = Len(listed) THEN "image" ELSE @]
  /\ Respond(tx.op, tx.by, tx.id, "pending", {}, << >>)
  /\ UNCHANGED store

\* step 4: a supplied image goes to image storage, the returned reference is
\* stored; without one the row keeps the reference it has.
StoreImage ==
  /\ tx.op # None
  /\ tx.step = "image"
  /\ tx' = [tx EXCEPT
              !.staged[tx.id].image = IF tx.req.image THEN "ref" ELSE @,
              !.step = "commit"]
  /\ Respond(tx.op, tx.by, tx.id, "pending", {}, << >>)
  /\ UNCHANGED store

\* A rolled back transaction leaves the store as it was.
Rollback(st, t) == st

\* An upstream storage error, of the store at any step or of image storage
\* at step 4, aborts the whole transaction.
StorageFailure ==
  /\ tx.op # None
  /\ tx.step # "image" \/ tx.req.image
  /\ store' = Rollback(store, tx)
  /\ tx' = NoTx
  /\ Respond(tx.op, tx.by, tx.id, "UpstreamStorageError", {}, << >>)

\* step 5: the transaction commits, the fully nested recipe is read back.
CommitTx ==
  /\ tx.op # None
  /\ tx.step = "commit"
  /\ store' = tx.staged
  /\ tx' = NoTx
  /\ Respond(tx.op, tx.by, tx.id, "ok", {}, << tx.staged[tx.id] >>)

\* Soft delete: flips the flag, the sections and items stay.
DeleteRecipe(u, id) ==
  /\ tx.op = None
  /\ IF u = None
       THEN /\ Respond("delete", u, id, "AuthenticationError", {}, << >>)
            /\ UNCHANGED store
     ELSE IF Gone(store, id)
       THEN /\ Respond("delete", u, id, "NotFoundError", {}, << >>)
            /\ UNCHANGED store
     ELSE IF ~MayModify(u, store[id])
       THEN /\ Respond("delete", u, id, "PermissionError", {}, << >>)
            /\ UNCHANGED store
     ELSE /\ store' = [store EXCEPT ![id].deleted = TRUE]
          /\ Respond("delete", u, id, "ok", {}, << >>)
  /\ UNCHANGED tx

\* Single-recipe read: public; a soft-deleted recipe is there for its
\* creator and for an admin only. It runs at any time, whatever a
\* transaction is doing.
ReadRecipe(u, id) ==
  /\ LET shown == Visible(store, tx)
     IN  IF Exists(shown, id) /\ (~shown[id].deleted \/ MayModify(u, shown[id]))
           THEN Respond("read", u, id, "ok", {}, << shown[id] >>)
         ELSE Respond("read", u, id, "NotFoundError", {}, << >>)
  /\ UNCHANGED <<store, tx>>

\* ------------------------------------------------------- search and filter
\* The query builder of the list endpoint, as the design describes it. A
\* text is the sequence of its letters; a search term is matched as a
\* case-insensitive substring.
LowerCase(ch) == CASE ch = "A" -> "a" [] ch = "B" -> "b" [] OTHER -> ch

Lower(t) == [i \in 1..Len(t) |-> LowerCase(t[i])]

Contains(t, term) ==
  \E i \in 0..(Len(t) - Len(term)) : SubSeq(t, i + 1, i + Len(term)) = term

Matches(t, term) == Contains(Lower(t), Lower(term))

NameMatch(row, term) == Matches(row.recipe_name, term)

IngredientMatch(row, term) ==
  \E k \in 1..Len(row.ingredient_sections) :
    \E j \in 1..Len(row.ingredient_sections[k].ingredients) :
      Matches(row.ingredient_sections[k].ingredients[j].ingredient_name, term)

\* time_needed is a bucket of minutes.
InBucket(minutes, bucket) ==
  CASE bucket = "less_than_30" -> minutes < 30
    [] bucket = "30_to_60" -> minutes >= 30 /\ minutes <= 60
    [] OTHER -> FALSE

Satisfies_PrepTime(row, q) ==
  /\ ~row.deleted
  /\ q.course_type = None \/ row.course_type = q.course_type
  /\ q.primary_protein = None \/ row.primary_protein = q.primary_protein
  /\ q.uploaded_by = None \/ row.creator_id = q.uploaded_by
  /\ q.time_needed = None \/ InBucket(row.prep_time, q.time_needed)

\* Default scoping and the filters, all of them at once; time_needed is
\* evaluated against total_time.
Satisfies(row, q) ==
  /\ ~row.deleted
  /\ q.course_type = None \/ row.course_type = q.course_type
  /\ q.primary_protein = None \/ row.primary_protein = q.primary_protein
  /\ q.uploaded_by = None \/ row.creator_id = q.uploaded_by
  /\ q.time_needed = None \/ InBucket(row.total_time, q.time_needed)

\* The secondary order: newest first.
RECURSIVE NewestFirst(_)
NewestFirst(ids) ==
  IF ids = {} THEN << >>
  ELSE LET newest == CHOOSE m \in ids : \A n \in ids : n <= m
       IN  <<newest>> \o NewestFirst(ids \ {newest})

Distinct_Keep(ids) == ids

\* A recipe found twice is listed once, where it was found first.
Distinct(ids) ==
  SelectSeq([k \in 1..Len(ids) |->
               IF \E j \in 1..(k - 1) : ids[j] = ids[k] THEN 0 ELSE ids[k]],
            LAMBDA id : id # 0)

NameHits(st, q) ==
  {id \in 1..Len(st) : Satisfies(st[id], q) /\ NameMatch(st[id], q.search)}

IngredientHits(st, q) ==
  {id \in 1..Len(st) :
     Satisfies(st[id], q) /\ IngredientMatch(st[id], q.search)}

\* The union of the name matches (tier 1) and the ingredient matches
\* (tier 2), in that order; without a term, everything the filters leave.
Ranked(st, q) ==
  IF q.search = << >>
    THEN NewestFirst({id \in 1..Len(st) : Satisfies(st[id], q)})
  ELSE Distinct(NewestFirst(NameHits(st, q))
                  \o NewestFirst(IngredientHits(st, q)))

\* A recipe summary: never the nested ingredients and instructions.
Summary(id, row) ==
  [id |-> id, recipe_name |-> row.recipe_name,
   course_type |-> row.course_type, primary_protein |-> row.primary_protein,
   total_time |-> row.total_time, number_servings |-> row.number_servings,
   creator_name |-> row.creator_id]

NoQuery ==
  [search |-> << >>, course_type |-> None, primary_protein |-> None,
   uploaded_by |-> None, time_needed |-> None]

\* The list endpoint: public, read-only; an unknown value of an enumerated
\* facet fails the request.
ListRecipes(q) ==
  /\ IF q.course_type # None /\ q.course_type \notin FacetValues.course_type
       THEN srvEv' = [SrvEv("list", None, 0, "InvalidFilterError", {}, << >>)
                        EXCEPT !.query = q]
     ELSE LET shown == Visible(store, tx)
              ids == Ranked(shown, q)
          IN  srvEv' = [SrvEv("list", None, 0, "ok", {},
                              [k \in 1..Len(ids) |->
                                 Summary(ids[k], shown[ids[k]])])
                          EXCEPT !.query = q]
  /\ UNCHANGED <<authVars, formVars, pageVars, sideVars, store, tx>>

\* The queries asked: a term or none, a course type or none (one of them
\* unknown), a time bucket or none.
Queries ==
  [search : {<< >>, <<"a">>, <<"B">>},
   course_type : {None, "Dinner", "NotARealType"},
   primary_protein : {None},
   uploaded_by : {None},
   time_needed : {None, "less_than_30"}]

\* The recipes of a catalog differ in what a term can find in them and in
\* what the filters look at.
CatalogRow(name, ingredient, course, minutes) ==
  [RecipeRow(RecipeData([FilledFormData EXCEPT !.course_type = course],
                        << >>, << >>), FALSE, "u1") EXCEPT
     !.recipe_name = name,
     !.prep_time = minutes,
     !.cook_time = minutes,
     !.total_time = computeTotalTime(minutes, minutes),
     !.ingredient_sections =
        << [section_title |-> "Main Ingredients", section_order |-> 1,
            ingredients |-> << [NewIngredient(1) EXCEPT
                                  !.ingredient_name = ingredient] >>] >>,
     !.instruction_sections = InstructionGraph(<<"a">>)]

CatalogRows ==
  {CatalogRow(name, ingredient, f[1], f[2]) :
     name \in {<<"A", "b">>, <<"c">>},
     ingredient \in {<<"a", "B">>, <<"c">>},
     f \in {<<"Dinner", 5>>, <<"Dinner", 20>>, <<"Dessert", 5>>}}

Catalogs == {<<r1, r2>> : r1 \in CatalogRows, r2 \in CatalogRows}

ServerInit ==
  /\ store = << >>
  /\ tx = NoTx
  /\ srvEv = SrvEv(None, None, 0, None, {}, << >>)

\* ------------------------------------------------------ RecipeDetailPage
\* The user object of useAuth(), none when logged out.
UserOf(viewer) ==
  IF viewer = None THEN << >>
  ELSE << [id |-> viewer, is_admin |-> IsAdmin(viewer)] >>

canEdit(isAuthenticated, u, recipe) ==
  /\ isAuthenticated
  /\ Len(u) > 0
  /\ Len(recipe) > 0
  /\ u[1].id = recipe[1].creator_id \/ u[1].is_admin

Detail(viewer, recipe, err) ==
  [viewer |-> viewer, recipe |-> recipe, error |-> err,
   canEdit |-> canEdit(UserOf(viewer) # << >>, UserOf(viewer), recipe)]

\* The page is opened by a viewer: fetchRecipe asks the single-recipe read
\* and keeps what it returns; the Edit and Delete controls are rendered
\* when canEdit.
ViewRecipeDetail(viewer, id) ==
  /\ LET shown == Visible(store, tx)
     IN  IF Exists(shown, id)
            /\ (~shown[id].deleted \/ MayModify(viewer, shown[id]))
           THEN /\ srvEv' = SrvEv("read", viewer, id, "ok", {},
                                  << shown[id] >>)
                /\ detail' = Detail(viewer, << shown[id] >>, "")
         ELSE /\ srvEv' = SrvEv("read", viewer, id, "NotFoundError", {},
                                << >>)
              /\ detail' = Detail(viewer, << >>,
                                  "Recipe not found or failed to load.")
  /\ UNCHANGED <<authVars, formVars, sideVars, store, tx>>

PageInit == detail = Detail(None, << >>, "")

\* ============================================================== comments
\* The comment endpoints, as the design describes them: the thread of one
\* recipe, oldest first. `next` is the id the next comment gets.
EmptyThread == [comments |-> << >>, next |-> 1]

IndexOfComment(comments, id) ==
  IF \E k \in 1..Len(comments) : comments[k].id = id
    THEN CHOOSE k \in 1..Len(comments) : comments[k].id = id
  ELSE 0

MayDeleteComment_Anyone(u, comment) == u # None

\* May this identity delete this comment: its author or an admin.
MayDeleteComment(u, comment) == u = comment.author \/ IsAdmin(u)

\* create requires authentication and non-empty text.
createCommentOn(th, u, text) ==
  IF u = None THEN [thread |-> th, status |-> "AuthenticationError"]
  ELSE IF Falsy(text) THEN [thread |-> th, status |-> "ValidationError"]
  ELSE [thread |-> [comments |-> Append(th.comments,
                                         [id |-> th.next, author |-> u,
                                          comment_text |-> text]),
                    next |-> th.next + 1],
        status |-> "ok"]

\* delete is permitted only to the comment's author or an admin.
deleteCommentOn(th, u, id) ==
  LET k == IndexOfComment(th.comments, id)
  IN  IF u = None THEN [thread |-> th, status |-> "AuthenticationError"]
      ELSE IF k = 0 THEN [thread |-> th, status |-> "NotFoundError"]
      ELSE IF ~MayDeleteComment(u, th.comments[k])
        THEN [thread |-> th, status |-> "PermissionError"]
      ELSE [thread |-> [th EXCEPT !.comments = RemoveAt(@, k)],
            status |-> "ok"]

\* list: by creation time ascending; each comment says whether the one who
\* asks may delete it.
getCommentsOf(th, viewer) ==
  [k \in 1..Len(th.comments) |->
     [id |-> th.comments[k].id,
      user_name |-> th.comments[k].author,
      comment_text |-> th.comments[k].comment_text,
      can_delete |-> MayDeleteComment(viewer, th.comments[k])]]

\* --------------------------------------------------------- CommentSection
CommentPage(viewer, comments, text, err, alert) ==
  [viewer |-> viewer, comments |-> comments, commentText |-> text,
   error |-> err, alert |-> alert]

\* The comment form is rendered when isAuthenticated.
FormOffered(page) == page.viewer # None

\* commentEv: the handler or request that ran last, who asked, whether a
\* request went out and how it was answered.
CommentEv(op, by, id, sent, status) ==
  [op |-> op, by |-> by, id |-> id, sent |-> sent, status |-> status]

CommentTexts == {"", " ", "a"}

\* fetchComments: the list, or nothing and a message when the call fails.
fetchComments(page, th, reached) ==
  IF reached
    THEN [page EXCEPT !.comments = getCommentsOf(th, page.viewer),
                      !.error = ""]
  ELSE [page EXCEPT !.comments = << >>,
                    !.error = "Failed to load comments."]

\* The section is mounted for a viewer: fetchComments.
MountComments(viewer, reached) ==
  /\ commentPage' =
       fetchComments(CommentPage(viewer, << >>, "", "", ""), thread, reached)
  /\ commentEv' = CommentEv("mount", viewer, 0, TRUE,
                            IF reached THEN "ok" ELSE "NetworkError")
  /\ UNCHANGED thread
  /\ UNCHANGED <<authVars, formVars, serverVars, pageVars, resetVars,
                 listVars, confirmVars>>

setCommentText(text) ==
  /\ FormOffered(commentPage)
  /\ commentPage' = [commentPage EXCEPT !.commentText = text]
  /\ commentEv' = CommentEv("setCommentText", commentPage.viewer, 0, FALSE,
                            None)
  /\ UNCHANGED thread
  /\ UNCHANGED <<authVars, formVars, serverVars, pageVars, resetVars,
                 listVars, confirmVars>>

CommentBlank_Never(text) == FALSE

\* !commentText.trim()
CommentBlank(text) == Falsy(Trim(text))

\* handleSubmit of the comment form: nothing is sent for a blank text;
\* otherwise createComment with the trimmed text, then the text is cleared
\* and the comments are fetched again, or the failure is shown.
CommentSubmit(reached) ==
  /\ FormOffered(commentPage)
  /\ CommentBlank(commentPage.commentText) \/ thread.next <= MaxComments
  /\ IF CommentBlank(commentPage.commentText)
       THEN /\ commentPage' =
                 [commentPage EXCEPT !.error = "Comment cannot be empty."]
            /\ commentEv' = CommentEv("handleSubmit", commentPage.viewer, 0,
                                      FALSE, None)
            /\ UNCHANGED thread
     ELSE LET out == createCommentOn(thread, commentPage.viewer,
                                     Trim(commentPage.commentText))
          IN  IF reached /\ out.status = "ok"
                THEN /\ thread' = out.thread
                     /\ commentPage' =
                          fetchComments([commentPage EXCEPT
                                           !.commentText = ""],
                                        out.thread, TRUE)
                     /\ commentEv' = CommentEv("handleSubmit",
                                               commentPage.viewer,
                                               thread.next, TRUE, "ok")
              ELSE /\ commentPage' =
                        [commentPage EXCEPT
                           !.error =
                              "Failed to post comment. Please try again."]
                   /\ commentEv' = CommentEv("handleSubmit",
                                             commentPage.viewer, 0, TRUE,
                                             IF reached THEN out.status
                                             ELSE "NetworkError")
                   /\ UNCHANGED thread
  /\ UNCHANGED <<authVars, formVars, serverVars, pageVars, resetVars,
                 listVars, confirmVars>>

\* handleDelete, from the Delete button of a comment that has can_delete,
\* once confirmed: deleteComment, then the comments are fetched again, or
\* the failure is shown in an alert.
CommentDelete(k) ==
  /\ k \in 1..Len(commentPage.comments)
  /\ commentPage.comments[k].can_delete
  /\ LET id == commentPage.comments[k].id
         out == deleteCommentOn(thread, commentPage.viewer, id)
     IN  /\ thread' = out.thread
         /\ commentPage' =
              IF out.status = "ok"
                THEN fetchComments([commentPage EXCEPT !.alert = ""],
                                   out.thread, TRUE)
              ELSE [commentPage EXCEPT
                      !.alert =
                         "Failed to delete comment. Please try again."]
         /\ commentEv' = CommentEv("handleDelete", commentPage.viewer, id,
                                   TRUE, out.status)
  /\ UNCHANGED <<authVars, formVars, serverVars, pageVars, resetVars,
                 listVars, confirmVars>>

\* Requests of other clients, whatever their pages offer.
CommentCreateRequest(u, text) ==
  /\ thread.next <= MaxComments
  /\ LET out == createCommentOn(thread, u, text)
     IN  /\ thread' = out.thread
         /\ commentEv' = CommentEv("create", u, thread.next, TRUE, out.status)
  /\ UNCHANGED commentPage
  /\ UNCHANGED <<authVars, formVars, serverVars, pageVars, resetVars,
                 listVars, confirmVars>>

CommentDeleteRequest(u, id) ==
  /\ LET out == deleteCommentOn(thread, u, id)
     IN  /\ thread' = out.thread
         /\ commentEv' = CommentEv("delete", u, id, TRUE, out.status)
  /\ UNCHANGED commentPage
  /\ UNCHANGED <<authVars, formVars, serverVars, pageVars, resetVars,
                 listVars, confirmVars>>

CommentInit ==
  /\ thread = EmptyThread
  /\ commentPage = CommentPage(None, << >>, "", "", "")
  /\ commentEv = CommentEv(None, None, 0, FALSE, None)

\* ======================================================== password reset
\* The reset endpoint, as the design and the project summary describe it:
\* the accounts, the requests counted in the current hour and the reset
\* mails handed to email delivery.
Accounts == {"a@x"}

Emails == {"a@x", "A@x ", "b@x"}

\* email.toLowerCase().trim()
NormalizeEmail(email) == IF email = "A@x " THEN "a@x" ELSE email

requestPasswordResetOn_RevealUnknown(srv, email, delivered) ==
  IF srv.count >= ResetRateLimit
    THEN [srv |-> srv, status |-> "Throttled"]
  ELSE IF email \notin Accounts
    THEN [srv |-> [srv EXCEPT !.count = @ + 1], status |-> "NotFoundError"]
  ELSE [srv |-> [count |-> srv.count + 1,
                 outbox |-> IF delivered THEN srv.outbox \cup {email}
                            ELSE srv.outbox],
        status |-> "ok"]

\* A request within the rate limit is answered ok, whether or not the email
\* belongs to an account and whether or not the mail could be delivered.
requestPasswordResetOn(srv, email, delivered) ==
  IF srv.count >= ResetRateLimit
    THEN [srv |-> srv, status |-> "Throttled"]
  ELSE [srv |-> [count |-> srv.count + 1,
                 outbox |-> IF email \in Accounts /\ delivered
                              THEN srv.outbox \cup {email}
                            ELSE srv.outbox],
        status |-> "ok"]

\* ---------------------------------------------------- ForgotPasswordPage
ForgotPage(email, isLoading, err, success) ==
  [email |-> email, loading |-> isLoading, error |-> err,
   success |-> success]

\* resetEv: the request that went out last: the email it carried, whether
\* that email has an account, whether the mail could be delivered, whether
\* the request reached the backend and how it was answered.
ResetEv(op, email, delivered, reached, status) ==
  [op |-> op, email |-> email, account |-> email \in Accounts,
   delivered |-> delivered, reached |-> reached, status |-> status]

\* The page is opened.
ForgotMount ==
  /\ ~forgot.loading
  /\ forgot.success \/ forgot.error # ""
  /\ forgot' = ForgotPage("", FALSE, "", FALSE)
  /\ resetEv' = ResetEv("mount", "", FALSE, FALSE, None)
  /\ UNCHANGED resetSrv
  /\ UNCHANGED <<authVars, formVars, serverVars, pageVars, commentVars,
                 listVars, confirmVars>>

setEmail(email) ==
  /\ ~forgot.success
  /\ forgot' = [forgot EXCEPT !.email = email]
  /\ UNCHANGED <<resetSrv, resetEv>>
  /\ UNCHANGED <<authVars, formVars, serverVars, pageVars, commentVars,
                 listVars, confirmVars>>

\* handleSubmit up to its await: the request goes out with the normalized
\* email.
ForgotSubmit ==
  /\ ~forgot.success
  /\ ~forgot.loading
  /\ forgot.email # ""
  /\ forgot' = [forgot EXCEPT !.error = "", !.loading = TRUE]
  /\ resetEv' = ResetEv("request", NormalizeEmail(forgot.email), FALSE,
                        FALSE, None)
  /\ UNCHANGED resetSrv
  /\ UNCHANGED <<authVars, formVars, serverVars, pageVars, commentVars,
                 listVars, confirmVars>>

\* handleSubmit after its await: success when the call resolved, a message
\* when it was rejected.
ForgotSettle(delivered, reached) ==
  /\ forgot.loading
  /\ LET out == requestPasswordResetOn(resetSrv, resetEv.email, delivered)
         status == IF reached THEN out.status ELSE "NetworkError"
     IN  /\ resetSrv' = IF reached THEN out.srv ELSE resetSrv
         /\ resetEv' = ResetEv("response", resetEv.email, delivered, reached,
                               status)
         /\ forgot' =
              IF status = "ok"
                THEN [forgot EXCEPT !.success = TRUE, !.loading = FALSE]
              ELSE [forgot EXCEPT
                      !.error =
                         "Failed to send reset email. Please try again.",
                      !.loading = FALSE]
  /\ UNCHANGED <<authVars, formVars, serverVars, pageVars, commentVars,
                 listVars, confirmVars>>

\* The hour of the rate limit is over.
HourPasses ==
  /\ resetSrv.count > 0
  /\ resetSrv' = [resetSrv EXCEPT !.count = 0]
  /\ UNCHANGED <<forgot, resetEv>>
  /\ UNCHANGED <<authVars, formVars, serverVars, pageVars, commentVars,
                 listVars, confirmVars>>

ResetInit ==
  /\ forgot = ForgotPage("", FALSE, "", FALSE)
  /\ resetSrv = [count |-> 0, outbox |-> {}]
  /\ resetEv = ResetEv(None, "", FALSE, FALSE, None)

\* ---------------------------------------------------------- RecipeListPage
\* The list pages: RecipeListPage and, with uploaded_by, MyRecipesPage.
\* owner is the id MyRecipesPage sends as uploaded_by; None on RecipeListPage.
InitialFilters ==
  [course_type |-> "", recipe_type |-> "", primary_protein |-> "",
   ethnic_style |-> ""]

ListPage(owner) ==
  [owner |-> owner, searchTerm |-> "", filters |-> InitialFilters,
   recipes |-> << >>, loading |-> TRUE, error |-> ""]

\* { ...filters, uploaded_by: user?.id, ...(searchTerm && { search }) }
SpreadParams(p) ==
  LET keys == DOMAIN p.filters
                \cup (IF p.owner = None THEN {} ELSE {"uploaded_by"})
                \cup (IF p.searchTerm = "" THEN {} ELSE {"search"})
  IN  [k \in keys |->
         CASE k = "search" -> p.searchTerm
           [] k = "uploaded_by" -> p.owner
           [] OTHER -> p.filters[k]]

RemoveEmpty_Keep(params) == params

\* Object.keys(params).forEach: delete the keys whose value is ''.
RemoveEmpty(params) ==
  [k \in {key \in DOMAIN params : params[key] # ""} |-> params[k]]

\* The params fetchRecipes hands to recipeService.getRecipes.
ListParams(p) == RemoveEmpty(SpreadParams(p))

\* The query string as the list endpoint reads it.
Letters(t) == CASE t = "a" -> <<"a">> [] t = "B" -> <<"B">> [] OTHER -> << >>

Param(params, key) == IF key \in DOMAIN params THEN params[key] ELSE None

QueryOf(params) ==
  [search |-> IF "search" \in DOMAIN params
                THEN Letters(params.search) ELSE << >>,
   course_type |-> Param(params, "course_type"),
   primary_protein |-> Param(params, "primary_protein"),
   uploaded_by |-> Param(params, "uploaded_by"),
   time_needed |-> None]

\* What recipeService.getRecipes resolves to: data.results.
getRecipes(st, params) ==
  LET ids == Ranked(st, QueryOf(params))
  IN  [k \in 1..Len(ids) |-> Summary(ids[k], st[ids[k]])]

ListEv(op, params) == [op |-> op, params |-> params]

\* fetchRecipes up to its await, run by the effect after the render that
\* gave the page the state p.
fetchRecipes(p) ==
  /\ BagCardinality(listReqs) < MaxReq
  /\ listPage' = [p EXCEPT !.loading = TRUE, !.error = ""]
  /\ listReqs' = listReqs (+) SetToBag({ListParams(p)})
  /\ listEv' = ListEv("fetch", ListParams(p))
  /\ UNCHANGED <<authVars, formVars, serverVars, pageVars, commentVars,
                 resetVars, confirmVars>>

\* The page is mounted: the effect runs for the first time.
ListMount(owner) ==
  /\ listEv.op = None
  /\ fetchRecipes(ListPage(owner))

\* setSearchTerm with the term the page has renders nothing anew.
handleSearch(term) ==
  /\ listEv.op # None
  /\ term # listPage.searchTerm
  /\ fetchRecipes([listPage EXCEPT !.searchTerm = term])

\* setFilters always makes a new object: the effect runs.
handleFilterChange(filterName, value) ==
  /\ listEv.op # None
  /\ fetchRecipes([listPage EXCEPT !.filters[filterName] = value])

clearFilters ==
  /\ listEv.op # None
  /\ fetchRecipes([listPage EXCEPT !.filters = InitialFilters,
                                   !.searchTerm = ""])

\* A list request comes back: setRecipes(data.results || data), and the
\* finally block.
ListResponse(params) ==
  /\ params \in BagToSet(listReqs)
  /\ listReqs' = listReqs (-) SetToBag({params})
  /\ listPage' = [listPage EXCEPT !.recipes = getRecipes(store, params),
                                  !.loading = FALSE]
  /\ listEv' = ListEv("response", params)
  /\ UNCHANGED <<authVars, formVars, serverVars, pageVars, commentVars,
                 resetVars, confirmVars>>

\* A list request fails: the catch block, and the finally block.
ListFailure(params) ==
  /\ params \in BagToSet(listReqs)
  /\ listReqs' = listReqs (-) SetToBag({params})
  /\ listPage' =
       [listPage EXCEPT
          !.error = IF listPage.owner = None
                      THEN "Failed to load recipes. Please try again."
                    ELSE "Failed to load your recipes. Please try again.",
          !.loading = FALSE]
  /\ listEv' = ListEv("failure", params)
  /\ UNCHANGED <<authVars, formVars, serverVars, pageVars, commentVars,
                 resetVars, confirmVars>>

\* What the visitor picks: a term, and a value of a filter.
SearchTerms == {"", "a"}

FilterChoices ==
  [course_type |-> {"", "Dinner"}, recipe_type |-> {""},
   primary_protein |-> {"", "Chicken"}, ethnic_style |-> {""}]

ListInit ==
  /\ listPage = ListPage(None)
  /\ listReqs = EmptyBag
  /\ listEv = ListEv(None, << >>)

\* ------------------------------------------------------- ResetPasswordPage
\* The methods of the exported authService object.
AuthServiceMethods ==
  {"getCurrentUser", "setCurrentUser", "clearCurrentUser", "login",
   "register", "logout", "isAuthenticated", "requestPasswordReset",
   "confirmPasswordReset"}

\* token: searchParams.get('token'), None when the link has none. A password
\* is the sequence of its characters.
ResetForm(token) ==
  [token |-> token, password |-> << >>, password_confirm |-> << >>,
   loading |-> FALSE, error |-> ""]

ConfirmEv(op, sent, payload) == [op |-> op, sent |-> sent, payload |-> payload]

\* The page is opened from a link.
ResetPageMount(token) ==
  /\ resetForm' = ResetForm(token)
  /\ confirmEv' = ConfirmEv("mount", FALSE, << >>)
  /\ UNCHANGED <<authVars, formVars, serverVars, pageVars, commentVars,
                 resetVars, listVars>>

resetHandleChange(name, value) ==
  /\ resetForm.token # None
  /\ resetForm' = [resetForm EXCEPT ![name] = value]
  /\ confirmEv' = ConfirmEv("handleChange", FALSE, << >>)
  /\ UNCHANGED <<authVars, formVars, serverVars, pageVars, commentVars,
                 resetVars, listVars>>

\* What handleSubmit's validation shows, "" when it passes.
ResetFormError(form) ==
  IF Len(form.password) < 8
    THEN "Password must be at least 8 characters long."
  ELSE IF form.password # form.password_confirm
    THEN "Passwords do not match."
  ELSE IF form.token = None
    THEN "Invalid reset link. Please request a new password reset."
  ELSE ""

\* handleSubmit. The call of a method that authService does not have throws
\* a TypeError inside the try block before anything is awaited: the catch
\* block finds no err.response, and the finally block runs, in the same task;
\* navigate('/login') is not reached.
resetHandleSubmit(method) ==
  LET msg == ResetFormError(resetForm)
  IN  /\ resetForm.token # None
      /\ ~resetForm.loading
      /\ IF msg # ""
           THEN /\ resetForm' = [resetForm EXCEPT !.error = msg]
                /\ confirmEv' = ConfirmEv("handleSubmit", FALSE, << >>)
         ELSE IF method \in AuthServiceMethods
           THEN /\ resetForm' = [resetForm EXCEPT !.error = "",
                                                  !.loading = TRUE]
                /\ confirmEv' =
                     ConfirmEv("handleSubmit", TRUE,
                               <<[token |-> resetForm.token,
                                  new_password |-> resetForm.password,
                                  confirm_password |->
                                    resetForm.password_confirm]>>)
         ELSE /\ resetForm' =
                   [resetForm EXCEPT
                      !.error = "Failed to reset password. Please try again or request a new reset link.",
                      !.loading = FALSE]
              /\ confirmEv' = ConfirmEv("handleSubmit", FALSE, << >>)
      /\ UNCHANGED <<authVars, formVars, serverVars, pageVars, commentVars,
                     resetVars, listVars>>

\* The passwords typed: none, too short, long enough, and others long enough.
Passwords ==
  {<< >>, [i \in 1..7 |-> "x"], [i \in 1..8 |-> "x"], [i \in 1..8 |-> "y"],
   [i \in 1..9 |-> "x"]}

ConfirmInit ==
  /\ resetForm = ResetForm(None)
  /\ confirmEv = ConfirmEv(None, FALSE, << >>)

SideInit == CommentInit /\ ResetInit /\ ListInit /\ ConfirmInit

RestInit == ServerInit /\ PageInit /\ SideInit

\* ---------------------------------------------------------- specifications
\* The session: api client, authService, AuthProvider. The form is not open.
Init == AuthInit /\ FormInit /\ formData = InitialFormData /\ RestInit

Next ==
  \/ LoginSubmit
  \/ LoadProfile
  \/ DataRequest
  \/ LogoutClick
  \/ \E q \in InFlight : ResponseOk(q)
  \/ \E q \in InFlight : Response401(q)
  \/ \E q \in InFlight : ResponseError(q)
  \/ \E q \in InFlight : RefreshOk(q)
  \/ \E q \in InFlight : RefreshFail(q)
  \/ Activity
  \/ Tick
  \/ \E id \in TimerIds : TimerFire(id)
  \/ PageLoad

Spec == Init /\ [][Next]_vars

\* The create-recipe form, on a page whose session is left alone.
FormSpecInit ==
  AuthInit /\ localStorage = EmptyStorage /\ FormInit /\ RestInit

FormSpecNext ==
  \/ addIngredientSection
  \/ \E k \in 1..MaxRows : removeIngredientSection(k)
  \/ \E k \in 1..MaxRows : addIngredient(k)
  \/ \E k, j \in 1..MaxRows : removeIngredient(k, j)
  \/ \E k \in 1..MaxRows, t \in FormTexts : updateIngredientSectionTitle(k, t)
  \/ \E k, j \in 1..MaxRows, t \in FormTexts : updateIngredient(k, j, t)
  \/ addInstructionSection
  \/ \E k \in 1..MaxRows : removeInstructionSection(k)
  \/ \E k \in 1..MaxRows : addInstruction(k)
  \/ \E k, j \in 1..MaxRows : removeInstruction(k, j)
  \/ \E k \in 1..MaxRows, t \in FormTexts : updateInstructionSectionTitle(k, t)
  \/ \E k, j \in 1..MaxRows, t \in FormTexts : updateInstruction(k, j, t)
  \/ handleSubmit
  \/ CreateOk
  \/ \E errorData \in ErrorDatas : CreateFail(errorData)

FormSpec == FormSpecInit /\ [][FormSpecNext]_vars

\* ------------------------------------------------------------ idle session
\* A logged-in session from the moment its user stops interacting: the page
\* is mounted with the stored user, the requests the last interaction sent
\* may still be in flight, and no further signal or click arrives.
PendingAtIdle ==
  {[q \in {NewRequest(k) : k \in {k \in {"data", "profile"} : n[k] > 0}} |->
      n[q.kind]] :
     n \in {m \in [{"data", "profile"} -> 0..MaxReq] :
              m["data"] + m["profile"] <= MaxReq}}

IdleInit ==
  /\ \E ls \in StoredSessions \ {EmptyStorage} :
       LET w == Mount(ls)
       IN /\ localStorage = w.ls
          /\ user = w.user
          /\ timers = w.timers
          /\ inactivityTimerRef = w.ref
          /\ href = w.href
  /\ quiet = 0
  /\ requests \in PendingAtIdle
  /\ ev = Ev("PageLoad")
  /\ logoutDone = "no"
  /\ FormInit
  /\ formData = InitialFormData
  /\ RestInit

Response ==
  \E q \in InFlight : ResponseOk(q) \/ Response401(q) \/ ResponseError(q)

RefreshResult == \E q \in InFlight : RefreshOk(q) \/ RefreshFail(q)

IdleNext ==
  \/ \E q \in InFlight : ResponseOk(q)
  \/ \E q \in InFlight : Response401(q)
  \/ \E q \in InFlight : ResponseError(q)
  \/ \E q \in InFlight : RefreshOk(q)
  \/ \E q \in InFlight : RefreshFail(q)
  \/ Tick
  \/ \E id \in TimerIds : TimerFire(id)
  \/ PageLoad

\* The clock runs, due timers fire, a navigation completes, every request is
\* answered or times out (axios timeout: 15 s), the refresh call returns.
IdleFairness ==
  /\ WF_vars(Tick)
  /\ WF_vars(\E id \in TimerIds : TimerFire(id))
  /\ WF_vars(PageLoad)
  /\ WF_vars(Response)
  /\ WF_vars(RefreshResult)

IdleSpec == IdleInit /\ [][IdleNext]_vars /\ IdleFairness

\* ---------------------------------------------------------------- backend
ServerSpecInit ==
  /\ AuthInit
  /\ localStorage = EmptyStorage
  /\ FormInit
  /\ formData = InitialFormData
  /\ RestInit

ServerNext ==
  \/ \E u \in Requesters, r \in WriteRequests :
       RejectCreate(u, r) \/ BeginCreate(u, r)
  \/ \E u \in Requesters, id \in 1..MaxRecipes, r \in WriteRequests :
       RejectUpdate(u, id, r) \/ BeginUpdate(u, id, r)
  \/ PersistIngredientSection
  \/ PersistInstructionSection
  \/ StoreImage
  \/ StorageFailure
  \/ CommitTx
  \/ \E u \in Requesters, id \in 1..MaxRecipes :
       DeleteRecipe(u, id) \/ ReadRecipe(u, id)

ServerSpec == ServerSpecInit /\ [][ServerNext]_vars

\* ------------------------------------------------------------ permissions
\* The backend and the detail page together; who asks is what matters here,
\* so every write carries the same payload.
PermissionNext ==
  \/ \E u \in Requesters :
       RejectCreate(u, PlainRequest) \/ BeginCreate(u, PlainRequest)
  \/ \E u \in Requesters, id \in 1..MaxRecipes :
       \/ RejectUpdate(u, id, PlainRequest)
       \/ BeginUpdate(u, id, PlainRequest)
  \/ PersistIngredientSection
  \/ PersistInstructionSection
  \/ StoreImage
  \/ StorageFailure
  \/ CommitTx
  \/ \E u \in Requesters, id \in 1..MaxRecipes :
       DeleteRecipe(u, id) \/ ViewRecipeDetail(u, id)

PermissionSpec == ServerSpecInit /\ [][PermissionNext]_vars

\* ---------------------------------------------------------------- comments
CommentSpecInit ==
  /\ AuthInit
  /\ localStorage = EmptyStorage
  /\ FormInit
  /\ formData = InitialFormData
  /\ RestInit

CommentNext ==
  \/ \E viewer \in Requesters, reached \in BOOLEAN :
       MountComments(viewer, reached)
  \/ \E text \in CommentTexts : setCommentText(text)
  \/ \E reached \in BOOLEAN : CommentSubmit(reached)
  \/ \E k \in 1..MaxComments : CommentDelete(k)
  \/ \E u \in Requesters, text \in {"", "a"} : CommentCreateRequest(u, text)
  \/ \E u \in Requesters, id \in 1..MaxComments :
       CommentDeleteRequest(u, id)

CommentSpec == CommentSpecInit /\ [][CommentNext]_vars

\* ---------------------------------------------------------- password reset
ResetNext ==
  \/ ForgotMount
  \/ \E email \in Emails : setEmail(email)
  \/ ForgotSubmit
  \/ \E delivered \in BOOLEAN, reached \in BOOLEAN :
       ForgotSettle(delivered, reached)
  \/ HourPasses

ResetSpec == CommentSpecInit /\ [][ResetNext]_vars

\* ----------------------------------------------------------- list endpoint
QuerySpecInit ==
  /\ AuthInit
  /\ localStorage = EmptyStorage
  /\ FormInit
  /\ formData = InitialFormData
  /\ store \in Catalogs
  /\ tx = NoTx
  /\ srvEv = SrvEv(None, None, 0, None, {}, << >>)
  /\ PageInit
  /\ SideInit

QueryNext ==
  \/ \E q \in Queries : ListRecipes(q)
  \/ \E u \in Requesters, id \in 1..MaxRecipes : DeleteRecipe(u, id)

QuerySpec == QuerySpecInit /\ [][QueryNext]_vars

\* ---------------------------------------------------------- form submitted
\* The create form as its user may have filled it in, submitted. Every field
\* of the filled form takes the values that a rule of validateForm tells
\* apart, two fields at a time.
FieldChoices ==
  [recipe_name |-> {"", " ", "a"}, recipe_description |-> {"", " ", "a"},
   course_type |-> {"", "Dinner"}, recipe_type |-> {"", "Soup"},
   primary_protein |-> {"", "Beef"}, ethnic_style |-> {"", "Thai"},
   prep_time |-> {"", "0", "5", "-1"}, cook_time |-> {"", "0", "5", "-1"},
   number_servings |-> {"", "0", "5", "-1"}]

FormInputs ==
  {InitialFormData}
    \cup UNION {UNION {{[FilledFormData EXCEPT ![f] = v, ![g] = w] :
                          v \in FieldChoices[f], w \in FieldChoices[g]} :
                       g \in DOMAIN FieldChoices} :
                f \in DOMAIN FieldChoices}

SectionTexts == {"", " ", "a"}

IngredientRow(name, order) ==
  [NewIngredient(order) EXCEPT !.ingredient_name = name]

IngredientInputs ==
  {<< [section_title |-> t, section_order |-> 1,
       ingredients |-> <<IngredientRow(n, 1)>>] >> :
     t \in SectionTexts, n \in SectionTexts}
    \cup {<< [section_title |-> "a", section_order |-> 1,
              ingredients |-> <<IngredientRow("a", 1), IngredientRow(n, 2)>>],
             [section_title |-> t, section_order |-> 2,
              ingredients |-> <<IngredientRow("a", 1)>>] >> :
            t \in SectionTexts, n \in {" ", "a"}}

InstructionRow(step, order) ==
  [NewInstruction(order) EXCEPT !.instruction_step = step]

InstructionInputs ==
  {<< [section_title |-> t, section_order |-> 1,
       instructions |-> <<InstructionRow(n, 1)>>] >> :
     t \in SectionTexts, n \in SectionTexts}
    \cup {<< [section_title |-> "a", section_order |-> 1,
              instructions |-> <<InstructionRow("a", 1),
                                 InstructionRow(n, 2)>>],
             [section_title |-> t, section_order |-> 2,
              instructions |-> <<InstructionRow("a", 1)>>] >> :
            t \in SectionTexts, n \in {" ", "a"}}

SubmitSpecInit ==
  /\ AuthInit
  /\ localStorage = EmptyStorage
  /\ formData \in FormInputs
  /\ ingredientSections \in IngredientInputs
  /\ instructionSections \in InstructionInputs
  /\ error = ""
  /\ loading = FALSE
  /\ formEv = FormEv("mount", 0, FALSE, None)
  /\ RestInit

SubmitNext ==
  \/ handleSubmit
  \/ CreateOk
  \/ \E errorData \in ErrorDatas : CreateFail(errorData)

SubmitSpec == SubmitSpecInit /\ [][SubmitNext]_vars

\* ------------------------------------------------------ the reset password page
ConfirmNext ==
  \/ \E token \in {None, "t1"} : ResetPageMount(token)
  \/ \E name \in {"password", "password_confirm"}, value \in Passwords :
       resetHandleChange(name, value)
  \/ resetHandleSubmit("resetPassword")

ConfirmSpec == CommentSpecInit /\ [][ConfirmNext]_vars

\* ---------------------------------------------------------- the list pages
\* A catalog of two recipes that the term and the filters tell apart.
ListCatalog ==
  << CatalogRow(<<"A", "b">>, <<"c">>, "Dinner", 5),
     [CatalogRow(<<"c">>, <<"c">>, "Dessert", 5) EXCEPT !.creator_id = "u2"] >>

ListSpecInit ==
  /\ AuthInit
  /\ localStorage = EmptyStorage
  /\ FormInit
  /\ formData = InitialFormData
  /\ store = ListCatalog
  /\ tx = NoTx
  /\ srvEv = SrvEv(None, None, 0, None, {}, << >>)
  /\ PageInit
  /\ SideInit

ListNext ==
  \/ \E owner \in {None, "u1"} : ListMount(owner)
  \/ \E term \in SearchTerms : handleSearch(term)
  \/ \E filterName \in DOMAIN FilterChoices :
       \E value \in FilterChoices[filterName] :
         handleFilterChange(filterName, value)
  \/ clearFilters
  \/ \E params \in BagToSet(listReqs) : ListResponse(params)
  \/ \E params \in BagToSet(listReqs) : ListFailure(params)

ListSpec == ListSpecInit /\ [][ListNext]_vars

\* ================================================================= claims
LoginTargets == {"session_expired", "no_session", "inactivity"}

\* C1: a request rejected with 401 while a refresh token is stored gets
\* exactly one refresh call; when the refresh succeeds the new access token
\* is stored and the request is sent again exactly once; a request that was
\* already retried is settled by its second response, whatever it is, with no
\* further refresh or retry.
RefreshOnceRetryOnce ==
  [][/\ \A q \in BagToSet(requests') : q.refreshCalls <= 1 /\ q.sends <= 2
     /\ ( /\ ev'.op = "Response401"
          /\ ~ev'.before.retry
          /\ localStorage.refresh_token # None )
        => /\ BagIn(ev'.after, requests')
           /\ ev'.after.pc = "refreshing"
           /\ ev'.after.refreshCalls = 1
           /\ ev'.after.sends = 1
     /\ ev'.op = "RefreshOk"
        => /\ localStorage'.access_token = ev'.tok
           /\ BagIn(ev'.after, requests')
           /\ ev'.after.pc = "sent"
           /\ ev'.after.sends = 2
           /\ ev'.after.refreshCalls = 1
     /\ ( /\ ev'.op \in {"ResponseOk", "Response401", "ResponseError"}
          /\ ev'.before.retry )
        => /\ ev'.result \in {"resolved", "rejected"}
           /\ BagCardinality(requests') = BagCardinality(requests) - 1
           /\ ev'.before.refreshCalls = 1
           /\ ev'.before.sends = 2
    ]_vars

\* C1 witness: a retried request was rejected with 401 a second time.
RetriedRequestRejectedAgain ==
  ev.op = "Response401" /\ ev.before.sends = 2 /\ ev.result = "rejected"

\* C2 (as claimed): when the retry sent after a successful refresh is itself
\* rejected with 401, the three keys are removed from storage and the browser
\* is sent to the login page.
RetryRejectedForcesLogout ==
  [][(ev'.op = "Response401" /\ ev'.before.sends = 2)
       => /\ localStorage' = EmptyStorage
          /\ href' \in LoginTargets
    ]_vars

NoTimerAfterExplicitLogout ==
  logoutDone # "no" => DOMAIN timers = {}

\* C5: while a user is stored, the inactivity logout fires only when the full
\* INACTIVITY_TIMEOUT has passed since the timer was armed and since the last
\* activity signal; an activity signal that finds a user stored leaves exactly
\* one pending timer, the one inactivityTimerRef holds, with the full duration
\* ahead of it.
FiresOnlyAfterFullIdle ==
  [][/\ (ev'.op = "TimerFire" /\ localStorage.user # None)
        => quiet >= INACTIVITY_TIMEOUT
     /\ (ev'.op = "Activity" /\ localStorage.user # None)
        => /\ DOMAIN timers' = {inactivityTimerRef'}
           /\ timers'[inactivityTimerRef'] = INACTIVITY_TIMEOUT
    ]_vars

\* C5 witness: the timer of a logged-in user fired after the full idle time
\* and the logout request went out.
TimerFiredOnIdleUser ==
  ev.op = "TimerFire" /\ ev.result = "sent" /\ user # None

\* C7: whenever authService.logout finishes - its server call succeeded,
\* failed or was not sent - its promise resolves and the three keys are
\* absent; it sends the server call exactly when a refresh token is stored.
LogoutAlwaysClears ==
  [][/\ ( /\ ev'.kind \in {"logout", "idleLogout"}
          /\ ev'.result \in {"resolved", "rejected", "skipped"} )
        => /\ ev'.logoutResult = "resolved"
           /\ localStorage' = EmptyStorage
     /\ ev'.op \in {"LogoutClick", "TimerFire"}
        => /\ ev'.result = IF localStorage.refresh_token # None
                             THEN "sent" ELSE "skipped"
           /\ ev'.result = "sent"
                => BagCardinality(requests') = BagCardinality(requests) + 1
           /\ ev'.result = "skipped" => requests' = requests
    ]_vars

\* C7 witness: the server logout call of an explicit logout failed, and the
\* logout still resolved with the keys removed.
LogoutResolvedAfterFailedCall ==
  /\ ev.op = "ResponseError" /\ ev.kind = "logout"
  /\ ev.logoutResult = "resolved" /\ localStorage = EmptyStorage

\* C6: when the inactivity timer fires the logout request is attempted (it is
\* sent when a refresh token is stored); when handleInactivityLogout ends the
\* three keys are absent, the context user is null and the browser is sent to
\* /login?reason=inactivity; a fired timer always gets there, and so does
\* every session with a stored user that is left idle with nothing in flight.
IdleSessionTerminates ==
  /\ [][/\ (ev'.op = "TimerFire" /\ localStorage.refresh_token # None)
           => /\ ev'.result = "sent"
              /\ BagIn(NewRequest("idleLogout"), requests')
        /\ ( /\ ev'.kind = "idleLogout"
             /\ ev'.result \in {"resolved", "rejected", "skipped"} )
           => /\ localStorage' = EmptyStorage
              /\ user' = None
              /\ href' = "inactivity"
       ]_vars
  /\ (ev.op = "TimerFire")
       ~> ( /\ ev.kind = "idleLogout"
            /\ ev.result \in {"resolved", "rejected", "skipped"}
            /\ localStorage = EmptyStorage /\ user = None
            /\ href = "inactivity" )
  /\ (localStorage.user # None /\ requests = EmptyBag /\ href = None)
       ~> ( /\ ev.kind = "idleLogout"
            /\ ev.result \in {"resolved", "rejected", "skipped"}
            /\ localStorage = EmptyStorage /\ user = None
            /\ href = "inactivity" )

\* C6 witness: the idle logout ran to its end after its server call failed.
IdleLogoutRedirected ==
  /\ ev.kind = "idleLogout" /\ ev.op = "ResponseError"
  /\ localStorage = EmptyStorage /\ user = None /\ href = "inactivity"

\* C8: on the create form the sections are numbered 1..N and the rows of each
\* section 1..M, in list order, for ingredients and for instructions, whatever
\* was added and removed.
OrdersFollowPositions ==
  /\ \A i \in 1..Len(ingredientSections) :
       /\ ingredientSections[i].section_order = i
       /\ \A j \in 1..Len(ingredientSections[i].ingredients) :
            ingredientSections[i].ingredients[j].ingredient_order = j
  /\ \A i \in 1..Len(instructionSections) :
       /\ instructionSections[i].section_order = i
       /\ \A j \in 1..Len(instructionSections[i].instructions) :
            instructionSections[i].instructions[j].step_order = j

\* C8 witness: the first of two ingredient sections was removed and the one
\* that remains, added as number 2, is now number 1.
FirstSectionRemoved ==
  /\ formEv.op = "removeIngredientSection" /\ formEv.at = 1
  /\ Len(ingredientSections) = 1
  /\ ingredientSections[1].section_title = ""

\* C9: the recipeData of every create request has at least one ingredient
\* section and at least one instruction section, and each of its sections has
\* at least one row.
CreateCarriesSectionsAndItems ==
  (formEv.op = "handleSubmit" /\ formEv.valid)
    => /\ Len(formEv.payload.ingredient_sections) >= 1
       /\ Len(formEv.payload.instruction_sections) >= 1
       /\ \A i \in 1..Len(formEv.payload.ingredient_sections) :
            Len(formEv.payload.ingredient_sections[i].ingredients) >= 1
       /\ \A i \in 1..Len(formEv.payload.instruction_sections) :
            Len(formEv.payload.instruction_sections[i].instructions) >= 1

\* C9 witness: a create request went out with a second ingredient section
\* the user had added.
CreateSentWithAddedSection ==
  /\ formEv.op = "handleSubmit" /\ formEv.valid
  /\ Len(formEv.payload.ingredient_sections) = 2

\* Every message a rule of validateForm has for the form, the rules taken one
\* by one.
ViolatedRules(fd, ing, ins) ==
  ( {BasicChecks(fd)[i] : i \in 1..Len(BasicChecks(fd))}
    \cup UNION {{IngredientSectionChecks(ing[k])[i] : i \in 1..3} :
                  k \in 1..Len(ing)}
    \cup UNION {{InstructionSectionChecks(ins[k])[i] : i \in 1..3} :
                  k \in 1..Len(ins)} ) \ {""}

\* C10 (as claimed): when validation rejects the form, what it reports names
\* every rule the form violates.
ValidationReportsEveryViolation ==
  (formEv.op = "handleSubmit" /\ ~formEv.valid)
    => ViolatedRules(formData, ingredientSections, instructionSections)
         \subseteq {error}

\* C11: a submission of a form that violates a rule sends no create request
\* (the page does not start loading, no recipeData is built), shows an error
\* message and leaves the recipe fields and both section lists as they were.
FailedValidationWritesNothing ==
  [][( /\ formEv'.op = "handleSubmit"
       /\ ViolatedRules(formData, ingredientSections, instructionSections)
            # {} )
       => /\ ~formEv'.valid
          /\ loading' = FALSE
          /\ error' # ""
          /\ formData' = formData
          /\ ingredientSections' = ingredientSections
          /\ instructionSections' = instructionSections
    ]_vars

\* C11 witness: a form with every basic field filled was rejected for a
\* nameless ingredient.
RejectedForNamelessIngredient ==
  /\ formEv.op = "handleSubmit" /\ ~formEv.valid
  /\ error = "All ingredients must have a name"
  /\ ~loading


\* The stored form of a payload: its flat fields, its whole graph in listed
\* order, an image reference that is final.
StoredFrom(row, r) ==
  /\ validate(r.data) = {}
  /\ row.recipe_name = r.data.recipe_name
  /\ row.prep_time = r.data.prep_time
  /\ row.cook_time = r.data.cook_time
  /\ row.ingredient_sections = r.data.ingredient_sections
  /\ row.instruction_sections = r.data.instruction_sections
  /\ row.image \in (IF r.image THEN {"ref"} ELSE {"ref", "fallback"})

Whole(row) == \E r \in WriteRequests : StoredFrom(row, r)

UpdateReplacesGraph ==
  [][ /\ (srvEv'.op = "update" /\ srvEv'.status = "ok")
          => /\ store'[tx.id].ingredient_sections
                  = tx.req.data.ingredient_sections
             /\ store'[tx.id].instruction_sections
                  = tx.req.data.instruction_sections
             /\ srvEv'.seen = << store'[tx.id] >>
      /\ (srvEv'.op = "update" /\ srvEv'.status # "ok") => store' = store
    ]_vars

\* An update from a one-section payload to the two-section payload went
\* through.
UpdatedToTwoSections ==
  /\ srvEv.op = "update" /\ srvEv.status = "ok"
  /\ Len(store[srvEv.id].ingredient_sections) = 2
  /\ store[srvEv.id].ingredient_sections[2].section_title = "a"
  /\ store[srvEv.id].prep_time = 0


\* C14: every stored recipe has total_time = prep_time + cook_time, after
\* create and after an update that changes prep_time or cook_time, and so
\* has every recipe a read or a read-back returns; the total is computed by
\* the store's side from the two times of the payload.
TotalTimeIsSum ==
  /\ \A id \in 1..Len(store) :
       store[id].total_time = store[id].prep_time + store[id].cook_time
  /\ \A k \in 1..Len(srvEv.seen) :
       srvEv.seen[k].total_time
         = srvEv.seen[k].prep_time + srvEv.seen[k].cook_time

\* An update to the payload with another prep_time went through: the total
\* is that of the new times.
TotalFollowsUpdate ==
  /\ srvEv.op = "update" /\ srvEv.status = "ok"
  /\ store[srvEv.id].prep_time = 0 /\ store[srvEv.id].cook_time = 5
  /\ store[srvEv.id].total_time = 5


\* What a query asks for, read off the contract: a recipe that is not
\* soft-deleted, has the course type asked for, has a total time in the
\* bucket asked for and, when a term is given, has the term in its name or
\* in the name of one of its ingredients.
Wanted(row, q) ==
  /\ ~row.deleted
  /\ q.course_type # None => row.course_type = q.course_type
  /\ q.primary_protein # None => row.primary_protein = q.primary_protein
  /\ q.uploaded_by # None => row.creator_id = q.uploaded_by
  /\ q.time_needed = "less_than_30" => row.prep_time + row.cook_time < 30
  /\ q.search # << >>
       => NameMatch(row, q.search) \/ IngredientMatch(row, q.search)

\* C15: for a search term, each matching recipe is in the result list exactly
\* once, and every recipe whose name matches comes before every recipe that
\* matches through an ingredient name only; a recipe matching both ways is
\* ranked with the name matches.
SearchRanksNameMatchesFirst ==
  (srvEv.op = "list" /\ srvEv.status = "ok" /\ srvEv.query.search # << >>)
    => LET term == srvEv.query.search
           res == srvEv.seen
       IN  /\ \A id \in 1..Len(store) :
                Wanted(store[id], srvEv.query)
                  => Cardinality({k \in 1..Len(res) : res[k].id = id}) = 1
           /\ \A i \in 1..Len(res), j \in 1..Len(res) :
                ( /\ NameMatch(store[res[j].id], term)
                  /\ ~NameMatch(store[res[i].id], term) ) => j < i

\* A search for "a" over an older recipe that has the term in its name and
\* in an ingredient, and a newer one that has it in an ingredient only:
\* the older one is listed first, once.
BothWaysMatchListedFirst ==
  /\ srvEv.op = "list" /\ srvEv.status = "ok"
  /\ srvEv.query.search = <<"a">>
  /\ Len(srvEv.seen) = 2
  /\ srvEv.seen[1].id = 1 /\ srvEv.seen[2].id = 2
  /\ NameMatch(store[1], <<"a">>) /\ IngredientMatch(store[1], <<"a">>)
  /\ ~NameMatch(store[2], <<"a">>) /\ IngredientMatch(store[2], <<"a">>)


\* C16: the recipes a list or search query returns are exactly the recipes
\* that are not soft-deleted, match the term if one is given and satisfy
\* every supplied filter at once, time_needed being evaluated against
\* total_time; a soft delete only flips the flag, the recipe stays in
\* storage with its sections.
ListReturnsExactlyTheWanted ==
  /\ []((srvEv.op = "list" /\ srvEv.status = "ok")
          => {srvEv.seen[k].id : k \in 1..Len(srvEv.seen)}
               = {id \in 1..Len(store) : Wanted(store[id], srvEv.query)})
  /\ [][(srvEv'.op = "delete" /\ srvEv'.status = "ok")
          => store' = [store EXCEPT ![srvEv'.id].deleted = TRUE]]_vars

\* A query with a term, a course type and a time bucket, over a store whose
\* first recipe would match had it not been soft-deleted: only the second
\* is returned, the first is still stored.
DeletedMatchLeftOut ==
  /\ srvEv.op = "list" /\ srvEv.status = "ok"
  /\ srvEv.query = [NoQuery EXCEPT !.search = <<"B">>,
                                   !.course_type = "Dinner",
                                   !.time_needed = "less_than_30"]
  /\ store[1].deleted
  /\ Wanted([store[1] EXCEPT !.deleted = FALSE], srvEv.query)
  /\ Len(store[1].ingredient_sections) = 1
  /\ Len(srvEv.seen) = 1 /\ srvEv.seen[1].id = 2


\* C17: the store changes only through a create asked by an authenticated
\* requester or through an update or delete asked by the recipe's creator or
\* an admin; a read of a stored, not deleted recipe succeeds whoever asks,
\* with no identity too; and the detail page offers Edit and Delete only to
\* a logged-in viewer whose id is the recipe's creator_id or who is admin.
OnlyCreatorOrAdminModifies ==
  /\ [][store' # store
          => \/ srvEv'.op = "create" /\ srvEv'.by # None
             \/ /\ srvEv'.op \in {"update", "delete"}
                /\ srvEv'.by # None
                /\ \/ srvEv'.by = store[srvEv'.id].creator_id
                   \/ srvEv'.by = "admin"]_vars
  /\ [][(srvEv'.op = "read" /\ ~Gone(store, srvEv'.id))
          => srvEv'.status = "ok"]_vars
  /\ [](detail.canEdit
          => /\ detail.viewer # None
             /\ Len(detail.recipe) = 1
             /\ \/ detail.viewer = detail.recipe[1].creator_id
                \/ detail.viewer = "admin")

\* u2 looked at u1's recipe, was offered no controls, asked for an update
\* all the same and was refused.
StrangerRefused ==
  /\ detail.viewer = "u2" /\ Len(detail.recipe) = 1
  /\ detail.recipe[1].creator_id = "u1" /\ ~detail.canEdit
  /\ srvEv.op = "update" /\ srvEv.by = "u2"
  /\ srvEv.status = "PermissionError"
  /\ store[srvEv.id].creator_id = "u1"


\* C18: a comment enters the thread only when an authenticated requester
\* asked for it, with a text that is not empty, and it carries that
\* requester as author; the comment form is there for a logged-in viewer
\* only; and a submission of an empty or whitespace-only text sends no
\* request and leaves the thread and the listed comments as they were.
CommentsNeedAuthorAndText ==
  /\ [][Len(thread'.comments) > Len(thread.comments)
          => LET new == thread'.comments[Len(thread'.comments)]
             IN  /\ commentEv'.by # None
                 /\ new.author = commentEv'.by
                 /\ new.comment_text # ""
                 /\ Trim(new.comment_text) = new.comment_text
                      \/ commentEv'.op = "create"]_vars
  /\ [](FormOffered(commentPage) => commentPage.viewer # None)
  /\ [][(commentEv'.op = "handleSubmit"
           /\ commentPage.commentText \in {"", " "})
          => /\ ~commentEv'.sent
             /\ thread' = thread
             /\ commentPage'.comments = commentPage.comments]_vars

\* A logged-in viewer with a comment listed submitted a whitespace-only
\* text: the message is shown, nothing went out.
BlankCommentNotSent ==
  /\ commentEv.op = "handleSubmit" /\ ~commentEv.sent
  /\ commentPage.commentText = " "
  /\ commentPage.error = "Comment cannot be empty."
  /\ Len(commentPage.comments) = 1
  /\ Len(thread.comments) = 1

ListParamsOmitEmpty ==
  listEv.op = "fetch"
    => /\ \A key \in DOMAIN listEv.params : listEv.params[key] # ""
       /\ \A key \in DOMAIN InitialFilters :
            IF listPage.filters[key] = ""
              THEN key \notin DOMAIN listEv.params
            ELSE /\ key \in DOMAIN listEv.params
                 /\ listEv.params[key] = listPage.filters[key]
       /\ IF listPage.searchTerm = ""
            THEN "search" \notin DOMAIN listEv.params
          ELSE /\ "search" \in DOMAIN listEv.params
               /\ listEv.params.search = listPage.searchTerm
       /\ DOMAIN listEv.params
            \subseteq DOMAIN InitialFilters \cup {"search", "uploaded_by"}
       /\ "uploaded_by" \in DOMAIN listEv.params <=> listPage.owner # None

FilteredWithoutTerm ==
  /\ listEv.op = "fetch"
  /\ listPage.searchTerm = ""
  /\ listPage.filters.course_type = "Dinner"
  /\ listPage.filters.primary_protein = ""
  /\ DOMAIN listEv.params = {"course_type"}


RECURSIVE StructuredMessages(_)
StructuredMessages(values) ==
  IF values = << >>
    THEN << >>
  ELSE (IF values[1].isArray THEN values[1].items ELSE <<values[1].text>>)
         \o StructuredMessages(Tail(values))

\* C22: after a failed create request the form shows the first structured
\* message of the response when there is one and the generic "please try
\* again" message otherwise, and loading is false.
CreateFailureShown ==
  formEv.op = "failed"
    => /\ ~loading
       /\ LET found == IF formEv.errorData.kind = "object"
                         THEN StructuredMessages(formEv.errorData.values)
                       ELSE << >>
          IN  error = IF found # << >>
                        THEN found[1]
                      ELSE "Failed to create recipe. Please try again."


Blank(text) == text \in {"", " "}

\* The create forms the rules accept.
Acceptable(fd, ing, ins) ==
  /\ ~Blank(fd.recipe_name)
  /\ ~Blank(fd.recipe_description)
  /\ \A facet \in {"course_type", "recipe_type", "primary_protein",
                   "ethnic_style"} : fd[facet] # ""
  /\ fd.prep_time \in {"0", "5"}
  /\ fd.cook_time \in {"0", "5"}
  /\ fd.number_servings = "5"
  /\ \A k \in 1..Len(ing) :
       /\ ~Blank(ing[k].section_title)
       /\ Len(ing[k].ingredients) >= 1
       /\ \A j \in 1..Len(ing[k].ingredients) :
            ~Blank(ing[k].ingredients[j].ingredient_name)
  /\ \A k \in 1..Len(ins) :
       /\ ~Blank(ins[k].section_title)
       /\ Len(ins[k].instructions) >= 1
       /\ \A j \in 1..Len(ins[k].instructions) :
            ~Blank(ins[k].instructions[j].instruction_step)

\* C24: validateForm accepts a form exactly when name and description are not
\* blank, the four facets are chosen, prep_time and cook_time are present and
\* not negative (0 is accepted), number_servings is at least 1, every section
\* has a title and an item, and every ingredient name and instruction step is
\* not blank.
ValidateAcceptsExactlyTheAcceptable ==
  formEv.op = "handleSubmit"
    => (formEv.valid
          <=> Acceptable(formData, ingredientSections, instructionSections))

\* A form with prep_time 0 and two sections was accepted.
ZeroPrepTimeAccepted ==
  /\ formEv.op = "handleSubmit"
  /\ formEv.valid
  /\ loading
  /\ formData.prep_time = "0"
  /\ Len(ingredientSections) = 2


\* C23: a request that goes out through the api client carries the access
\* token stored at that moment as its Authorization header, the retry after
\* a refresh carries the token the refresh returned, and a request sent
\* while no access token is stored has no Authorization header.
RequestsCarryStoredToken ==
  /\ ev.result \in {"sent", "resent"}
       => ev.auth = localStorage.access_token
  /\ ev.result = "resent" => ev.auth = ev.tok /\ ev.tok \in AccessTokens

\* A retry went out with a refreshed token.
RetrySentWithNewToken ==
  /\ ev.op = "RefreshOk"
  /\ ev.result = "resent"
  /\ ev.auth = "a2"
  /\ localStorage.access_token = "a2"


\* C25: submitting a password of at least 8 characters that equals its
\* confirmation, on a page opened with a token, sends the token, the new
\* password and the confirmation to the password-reset-confirm endpoint; a
\* shorter password, a mismatch or a missing token sends no request.
ValidResetIsSent ==
  confirmEv.op = "handleSubmit"
    => IF /\ Len(resetForm.password) >= 8
          /\ resetForm.password = resetForm.password_confirm
          /\ resetForm.token # None
         THEN /\ confirmEv.sent
              /\ confirmEv.payload
                   = <<[token |-> resetForm.token,
                        new_password |-> resetForm.password,
                        confirm_password |-> resetForm.password_confirm]>>
       ELSE ~confirmEv.sent


\* C26: at most one inactivity timer is pending at any time, the one that
\* inactivityTimerRef holds; when it fires none is left pending, and at most
\* one inactivity logout is in flight.
AtMostOneInactivityTimer ==
  /\ Cardinality(DOMAIN timers) <= 1
  /\ DOMAIN timers # {} => DOMAIN timers = {inactivityTimerRef}
  /\ ev.op = "TimerFire" => DOMAIN timers = {}
  /\ LET idle == {q \in InFlight : q.kind = "idleLogout"}
     IN  /\ Cardinality(idle) <= 1
         /\ \A q \in idle : CopiesIn(q, requests) = 1

\* setUser armed the timer of a session that already had one pending.
ProfileLoadedRearmedTimer ==
  /\ ev.kind = "profile" /\ ev.result = "resolved"
  /\ logoutDone = "no"
  /\ DOMAIN timers = {inactivityTimerRef}
  /\ timers[inactivityTimerRef] = INACTIVITY_TIMEOUT


\* C27: once an idle-timeout logout has completed (storage cleared, context
\* user null) no inactivity timer is pending, also when activity signals
\* arrived while its logout request was in flight; and no step arms a timer
\* while no user is stored.
NoTimerAfterIdleLogout ==
  [][/\ ( /\ ev'.kind = "idleLogout"
          /\ ev'.result \in {"resolved", "rejected", "skipped"}
          /\ localStorage' = EmptyStorage
          /\ user' = None )
        => DOMAIN timers' = {}
     /\ (\E id \in DOMAIN timers' :
           id \notin DOMAIN timers \/ timers'[id] > timers[id])
        => localStorage'.user # None
    ]_vars


\* C28: once AuthProvider.logout has completed, and until the next successful
\* login, the context user is null and no user is stored, also when a
\* profile request that was sent before the logout is answered afterwards.
LoggedOutStaysLoggedOut ==
  logoutDone # "no" => user = None /\ localStorage.user = None


\* The refresh calls in flight.
Refreshing == {q \in InFlight : q.pc = "refreshing"}

\* C29: when several requests are rejected with 401, at most one refresh
\* call is in flight at any moment, and a refresh failure in the handling of
\* one request does not log out the session that the refresh of another
\* request has just renewed.
SingleRefreshInFlight ==
  /\ [](/\ Cardinality(Refreshing) <= 1
        /\ \A q \in Refreshing : CopiesIn(q, requests) = 1)
  /\ [][(ev.op = "RefreshOk" /\ ev'.op = "RefreshFail")
          => localStorage' = localStorage]_vars

====
